---- MODULE Spec2Model ----
(***************************************************************************)
(* Model of the hardhat-app scripts: the deployment ledger                 *)
(* (deployments.json), the deploy script, the two import scripts and the   *)
(* environment-driven interact script, together with the parts of the     *)
(* chain they talk to.                                                     *)
(*                                                                         *)
(* Conventions                                                             *)
(*  - an address string is a sequence of hex characters (the "0x" prefix   *)
(*    is left out, and AddrLen digits stand for the 40 of a real address); *)
(*  - an unset (or empty) environment variable is "" (both are falsy in    *)
(*    the scripts' `!x` tests), an unset address is << >>;                 *)
(*  - a JavaScript value that the scripts inspect dynamically is a tagged  *)
(*    record [t |-> type, v |-> payload];                                  *)
(*  - JSON text is kept apart from the value it encodes: JSONStringify     *)
(*    builds a text, JSONParse decodes one.                                *)
(***************************************************************************)
EXTENDS Integers, Sequences, FiniteSets, TLC

VARIABLES
    file,     \* deployments.json: [exists, raw |-> JSON text, writes |-> times written]
    chain,    \* lower-cased address -> [contract, state] of a deployed contract
    txCount,  \* transactions accepted by the node so far
    runs,     \* script invocations started so far (also the wall clock)
    pc,       \* per invocation slot: the statement the script is at
    env,      \* per invocation slot: process.env / hardhatArguments
    loc,      \* per invocation slot: the locals of main()
    out,      \* per invocation slot: JSON objects printed, exit code
    fv,       \* formatReturnValue: the argument
    fr,       \* formatReturnValue: [done |-> BOOLEAN, v |-> the value returned]
    cfile,    \* contracts/deployments.json, the ledger of the positional scripts
    artifactFiles, \* "contracts/X.sol:X" -> the ABI in artifacts/contracts/X.sol/X.json
    voting,   \* the storage of a Voting contract, and the last call made to it
    token     \* the storage of a SimpleERC20 contract, and the last call made to it

vars == <<file, chain, txCount, runs, pc, env, loc, out, fv, fr, cfile, artifactFiles,
          voting, token>>

-----------------------------------------------------------------------------
(* Bounds *)

AddrLen == 1          \* hex digits of an address string
MaxRuns == 2          \* script invocations in one behaviour
MaxLen == 1           \* length of the arrays handed to formatReturnValue
MaxCandidates == 2    \* candidates a Voting contract is given
Supply == 3           \* the total supply of the token, in the units counted here

Procs == {"p", "q"}   \* two invocation slots (two OS processes)

-----------------------------------------------------------------------------
(* Strings and addresses *)

HexChars == {"a", "A", "b", "B"}

LowerChar(c) == CASE c = "A" -> "a" [] c = "B" -> "b" [] OTHER -> c

\* String.prototype.toLowerCase, character by character
toLowerCase(s) == [i \in DOMAIN s |-> LowerChar(s[i])]

Address == [1..AddrLen -> HexChars]

LowerAddress == {toLowerCase(a) : a \in Address}

\* a string of the right length that is no hex string
BadAddress == [i \in 1..AddrLen |-> "z"]

NoAddress == << >>

UpperChar(c) == CASE c = "a" -> "A" [] c = "b" -> "B" [] OTHER -> c

toUpperCase(s) == [i \in DOMAIN s |-> UpperChar(s[i])]

\* The checksum case of an address. ethers derives it from a hash of the
\* digits; here the letters at odd positions are the upper-case ones.
ChecksumAddress(a) ==
    [i \in DOMAIN a |-> IF i % 2 = 1 THEN UpperChar(a[i]) ELSE LowerChar(a[i])]

\* A variant of validateAddress that accepts every string
validateAddressAny(a) == TRUE

\* ethers.isAddress: a hex string of the right length that is all lower
\* case, all upper case, or in checksum case
validateAddress(a) ==
    /\ a \in Address
    /\ a \in {toLowerCase(a), toUpperCase(a), ChecksumAddress(a)}

Null == <<"null">>

Digit(d) == CASE d = 0 -> "0" [] d = 1 -> "1" [] d = 2 -> "2" [] d = 3 -> "3"
              [] d = 4 -> "4" [] d = 5 -> "5" [] d = 6 -> "6" [] d = 7 -> "7"
              [] d = 8 -> "8" [] d = 9 -> "9"

RECURSIVE NatToString(_)
NatToString(n) == IF n < 10 THEN <<Digit(n)>>
                  ELSE Append(NatToString(n \div 10), Digit(n % 10))

\* BigInt.prototype.toString(): the decimal digits, "-" first when negative
BigIntToString(n) == IF n < 0 THEN <<"-">> \o NatToString(-n) ELSE NatToString(n)

\* the hash the node gives the n-th transaction
TxHash(n) == <<"0", "x">> \o NatToString(n)

-----------------------------------------------------------------------------
(* JavaScript values *)

JSNull == [t |-> "null", v |-> 0]
JSBool(b) == [t |-> "boolean", v |-> b]
JSNumber(n) == [t |-> "number", v |-> n]
JSBigInt(n) == [t |-> "bigint", v |-> n]
JSString(s) == [t |-> "string", v |-> s]
JSArray(s) == [t |-> "array", v |-> s]
JSObject(f) == [t |-> "object", v |-> f]

\* An ethers Result, the value a call with several (or struct) outputs
\* returns: an Array (Array.isArray is true of it) of the components, which
\* can also be read under the names the ABI gives them
JSResult(items, names) == [t |-> "result", v |-> items, names |-> names]

\* Array.isArray(value)
IsArrayValue(value) == value.t \in {"array", "result"}

IsArray(x) == x.t = "array"

-----------------------------------------------------------------------------
(* JSON *)

\* A JSON text: ok = FALSE is a text JSON.parse rejects, json is what a valid
\* text encodes.
BadText == [ok |-> FALSE, json |-> JSNull]

\* An optional property of a printed object is [defined, v]: defined = FALSE
\* is the JavaScript value undefined
Some(x) == [defined |-> TRUE, v |-> x]
None == [defined |-> FALSE, v |-> << >>]

\* the properties the scripts may set to undefined
OptionalFields == {"logs"}

\* JSON.stringify of one object: an own property whose value is undefined is
\* left out, null is kept
StripUndefined(o) ==
    [f \in {g \in DOMAIN o : g \in OptionalFields => o[g].defined} |->
        IF f \in OptionalFields THEN o[f].v ELSE o[f]]

\* JSON.stringify(deployments, null, 2)
JSONStringify(deployments) ==
    [ok |-> TRUE, json |-> [k \in DOMAIN deployments |-> StripUndefined(deployments[k])]]

\* JSON.stringify of one printed summary object
JSONStringifyObject(o) == [ok |-> TRUE, json |-> StripUndefined(o)]

\* JSON.parse: [threw, v]
JSONParse(text) == [threw |-> ~text.ok, v |-> text.json]

\* the strings the scripts are given in CONSTRUCTOR_ARGS / CONTRACT_ARGS, and
\* the JSON text each one is
ArgStrings == {"", "[]", "[7]", "[\"hi\"]", "[7,8]", "{}", "oops"}

ArgText(s) ==
    CASE s = "[]"       -> [ok |-> TRUE, json |-> JSArray(<< >>)]
      [] s = "[7]"      -> [ok |-> TRUE, json |-> JSArray(<<JSNumber(7)>>)]
      [] s = "[\"hi\"]" -> [ok |-> TRUE, json |-> JSArray(<<JSString(<<"h", "i">>)>>)]
      [] s = "[7,8]"    -> [ok |-> TRUE, json |-> JSArray(<<JSNumber(7), JSNumber(8)>>)]
      [] s = "{}"       -> [ok |-> TRUE, json |-> JSObject(<< >>)]
      [] OTHER          -> BadText

-----------------------------------------------------------------------------
(* Contracts and their interfaces *)

Fragment(type, name, inputs, mut) ==
    [k |-> "object", typeofType |-> "string", type |-> type, name |-> name,
     inputs |-> inputs, stateMutability |-> mut]

\* contracts/SimpleTextStorage.sol
SimpleTextStorageABI ==
    << Fragment("event", "TextUpdated", <<"string">>, "none"),
       Fragment("function", "getText", << >>, "view"),
       Fragment("function", "setText", <<"string">>, "nonpayable"),
       Fragment("function", "storedText", << >>, "view") >>

\* the Add contract (a counter with a one-argument constructor)
AddABI ==
    << Fragment("constructor", "", <<"uint256">>, "nonpayable"),
       Fragment("event", "ValueChanged", <<"uint256", "address">>, "none"),
       Fragment("function", "get", << >>, "view"),
       Fragment("function", "set", <<"uint256">>, "nonpayable"),
       Fragment("function", "value", << >>, "view") >>

Contracts == {"SimpleTextStorage", "Add"}

CompiledABI(c) == IF c = "Add" THEN AddABI ELSE SimpleTextStorageABI

SourcePath(c) == IF c = "Add" THEN "contracts/Add.sol" ELSE "contracts/SimpleTextStorage.sol"

\* artifact.interface.deploy?.inputs || []
ConstructorInputs(abi) ==
    IF \E i \in DOMAIN abi : abi[i].type = "constructor"
    THEN abi[CHOOSE i \in DOMAIN abi : abi[i].type = "constructor"].inputs
    ELSE << >>

\* ethers' argument encoding: can the JSON value v be passed for a parameter
\* of Solidity type ty
Encodable(v, ty) ==
    CASE ty = "uint256" -> v.t = "number" /\ v.v >= 0
      [] ty = "string"  -> v.t = "string"
      [] OTHER          -> FALSE

EncodableAll(args, inputs) ==
    /\ Len(args) = Len(inputs)
    /\ \A i \in DOMAIN args : Encodable(args[i], inputs[i])

\* the state a freshly constructed contract has
InitialState(c, args) ==
    IF c = "Add" THEN JSBigInt(args[1].v) ELSE JSString(<< >>)

\* the value stored by set / setText
StoredState(c, args) ==
    IF c = "Add" THEN JSBigInt(args[1].v) ELSE JSString(args[1].v)

-----------------------------------------------------------------------------
(* The ledger store *)

EmptyDeployments == << >>

NoFile == [exists |-> FALSE, raw |-> JSONStringify(EmptyDeployments), writes |-> 0]

\* readDeployments(): {} when the file is missing, else the parsed content
readDeployments(f) ==
    IF ~f.exists THEN EmptyDeployments ELSE JSONParse(f.raw).v

\* Variants of the assignment below, each one leaving out one thing the
\* assignment does: the key taken as given,
SetEntryKeepCase(deployments, address, info) ==
    [k \in DOMAIN deployments \cup {address} |->
        IF k = address THEN info ELSE deployments[k]]

\* the new record laid over the one already stored (Object.assign),
SetEntryMerge(deployments, address, info) ==
    [k \in DOMAIN deployments \cup {toLowerCase(address)} |->
        IF k # toLowerCase(address) THEN deployments[k]
        ELSE IF k \notin DOMAIN deployments THEN info
        ELSE [f \in DOMAIN info \cup DOMAIN deployments[k] |->
                 IF f \in DOMAIN info THEN info[f] ELSE deployments[k][f]]]

\* and the ledger started afresh with the new record alone
SetEntryAlone(deployments, address, info) ==
    [k \in {toLowerCase(address)} |-> info]

\* deployments[address.toLowerCase()] = info
SetEntry(deployments, address, info) ==
    [k \in DOMAIN deployments \cup {toLowerCase(address)} |->
        IF k = toLowerCase(address) THEN info ELSE deployments[k]]

\* A variant of the write below: the entries the file holds at the time of
\* the write are kept beside the ones written
writeFileSyncMerging(f, deployments) ==
    [exists |-> TRUE,
     raw |-> JSONStringify([k \in DOMAIN f.raw.json \cup DOMAIN deployments |->
                               IF k \in DOMAIN deployments THEN deployments[k]
                               ELSE f.raw.json[k]]),
     writes |-> f.writes + 1]

\* fs.writeFileSync(DEPLOYMENTS_FILE_PATH, JSON.stringify(deployments, null, 2))
\* on file f
writeFileSync(f, deployments) ==
    [exists |-> TRUE, raw |-> JSONStringify(deployments), writes |-> f.writes + 1]

-----------------------------------------------------------------------------
(* One script invocation *)

NoEnv ==
    [script |-> "none", address |-> NoAddress, name |-> "", path |-> "", args |-> "",
     fn |-> "", abiFile |-> "", sourceFile |-> "", netDeployed |-> "", network |-> "",
     argv |-> << >>]

NoInfo == [deploymentType |-> "none"]

NoError == [kind |-> "none", address |-> NoAddress, fn |-> ""]

Error(kind) == [kind |-> kind, address |-> NoAddress, fn |-> ""]

\* the locals of main(): provider requests made so far, transactions it got
\* accepted, the ledger as readDeployments returned it, the record and
\* address handed to saveDeployment, parsed arguments, the interface in use,
\* the transaction hash obtained, the error thrown, how the accessibility
\* probe ended; and, for the record, the ledger file as it was when the
\* process started, whether and at which file version the process read and
\* wrote the ledger
NoLocals ==
    [reqs |-> << >>, txs |-> 0, deployments |-> EmptyDeployments, info |-> NoInfo,
     saveTo |-> NoAddress, args |-> << >>, abi |-> << >>, hash |-> Null,
     err |-> NoError, probe |-> "none",
     before |-> NoFile, wrote |-> FALSE, readAt |-> 0, wroteAt |-> 0,
     contractABI |-> JSNull, cbefore |-> NoFile]

\* the locals of a process that starts now
Fresh == [NoLocals EXCEPT !.before = file, !.cbefore = cfile]

NoOutput == [json |-> << >>, exit |-> -1]

\* main() is called in a fresh process with environment e (a free slot holds
\* NoLocals and NoOutput); the clock advances
Begin(p, e) ==
    /\ pc[p] = "idle"
    /\ runs < MaxRuns
    /\ runs' = runs + 1
    /\ env' = [env EXCEPT ![p] = e]

\* the process has exited and its output has been read: the slot is free
Reap(p) ==
    /\ pc[p] = "done"
    /\ pc' = [pc EXCEPT ![p] = "idle"]
    /\ env' = [env EXCEPT ![p] = NoEnv]
    /\ loc' = [loc EXCEPT ![p] = NoLocals]
    /\ out' = [out EXCEPT ![p] = NoOutput]
    /\ UNCHANGED <<file, chain, txCount, runs, fv, fr, cfile, artifactFiles, voting, token>>

\* A variant of Reject in which the process ends with exit code 0
RejectExitZero(p, l, e) ==
    /\ pc' = [pc EXCEPT ![p] = "done"]
    /\ loc' = [loc EXCEPT ![p] = [l EXCEPT !.err = e]]
    /\ out' = [out EXCEPT ![p].exit = 0]

\* main() rejects with error e, locals l: .catch prints it on stderr and
\* calls process.exit(1)
Reject(p, l, e) ==
    /\ pc' = [pc EXCEPT ![p] = "done"]
    /\ loc' = [loc EXCEPT ![p] = [l EXCEPT !.err = e]]
    /\ out' = [out EXCEPT ![p].exit = 1]

\* main() goes on at statement next with locals l
Goto(p, l, next) ==
    /\ pc' = [pc EXCEPT ![p] = next]
    /\ loc' = [loc EXCEPT ![p] = l]
    /\ UNCHANGED out

Request(l, r) == [l EXCEPT !.reqs = Append(@, r)]

-----------------------------------------------------------------------------
(* scripts/deploy.ts *)

DeployEnv(name, path, args, network) ==
    [NoEnv EXCEPT !.script = "deploy", !.name = name, !.path = path, !.args = args,
                  !.network = network]

DeployEnvs ==
    {DeployEnv(c, SourcePath(c), a, "localhost") : c \in Contracts, a \in ArgStrings}
    \cup {DeployEnv("SimpleTextStorage", "", "", "localhost"),
          DeployEnv("", "contracts/Add.sol", "[7]", "localhost"),
          DeployEnv("SimpleTextStorage", SourcePath("SimpleTextStorage"), "", ""),
          DeployEnv("Add", SourcePath("SimpleTextStorage"), "[7]", "localhost")}

\* A variant of parseConstructorArgs that does not compare the lengths
parseConstructorArgsAnyLength(argsString, types) ==
    IF argsString = ""
    THEN [threw |-> Len(types) > 0, v |-> << >>]
    ELSE LET parsed == JSONParse(ArgText(argsString))
         IN  IF parsed.threw THEN [threw |-> TRUE, v |-> << >>]
             ELSE IF ~IsArray(parsed.v) THEN [threw |-> TRUE, v |-> << >>]
             ELSE [threw |-> FALSE, v |-> parsed.v.v]

\* parseConstructorArgs(argsString, types): [threw, v]
parseConstructorArgs(argsString, types) ==
    IF argsString = ""
    THEN [threw |-> Len(types) > 0, v |-> << >>]
    ELSE LET parsed == JSONParse(ArgText(argsString))
         IN  IF parsed.threw THEN [threw |-> TRUE, v |-> << >>]
             ELSE IF ~IsArray(parsed.v) THEN [threw |-> TRUE, v |-> << >>]
             ELSE IF Len(parsed.v.v) # Len(types) THEN [threw |-> TRUE, v |-> << >>]
             ELSE [threw |-> FALSE, v |-> parsed.v.v]

\* step 3 of main(): the constructor arguments the deployment is made with
PrepareConstructorArgs(constructorArgs, constructorAbiInputs) ==
    IF Len(constructorAbiInputs) > 0
    THEN IF constructorArgs = ""
         THEN [threw |-> TRUE, v |-> << >>]
         ELSE parseConstructorArgs(constructorArgs, constructorAbiInputs)
    ELSE [threw |-> FALSE, v |-> << >>]

\* A variant of the record deploy writes that leaves the transaction hash out
DeployRecordNoHash(networkName, contractName, contractPath, contractAddress, timestamp, abi, hash) ==
    [network |-> networkName,
     contractName |-> contractName,
     contractAddress |-> contractAddress,
     timestamp |-> timestamp,
     deploymentType |-> "local",
     artifactPath |-> <<"artifacts", contractPath, contractName>>,
     sourcePath |-> contractPath,
     uid |-> Null,
     abi |-> abi]

\* the entry deploy writes to the ledger (deploymentOutput / deploymentEntry)
DeployRecord(networkName, contractName, contractPath, contractAddress, timestamp, abi, hash) ==
    [network |-> networkName,
     contractName |-> contractName,
     contractAddress |-> contractAddress,
     timestamp |-> timestamp,
     deploymentType |-> "local",
     artifactPath |-> <<"artifacts", contractPath, contractName>>,
     sourcePath |-> contractPath,
     uid |-> Null,
     abi |-> abi,
     transactionHash |-> hash]

\* main() up to its first await: the environment checks
DeployStart(p, envs) ==
    \E e \in envs :
        /\ Begin(p, e)
        /\ IF e.path = "" \/ e.name = ""
           THEN Reject(p, Fresh, Error("MissingEnv"))
           ELSE IF e.network = ""
           THEN Reject(p, Fresh, Error("NoNetwork"))
           ELSE Goto(p, Fresh, "d_compile")
        /\ UNCHANGED <<file, chain, txCount, fv, fr, cfile, artifactFiles, voting, token>>

\* await run("compile")
DeployCompile(p) ==
    /\ pc[p] = "d_compile"
    /\ \/ Goto(p, loc[p], "d_factory")
       \/ Reject(p, loc[p], Error("CompileFailed"))
    /\ UNCHANGED <<file, chain, txCount, runs, env, fv, fr, cfile, artifactFiles, voting, token>>

\* getSigners, getBalance, getContractFactory
DeployFactory(p) ==
    /\ pc[p] = "d_factory"
    /\ LET l == Request(Request(loc[p], "eth_accounts"), "eth_getBalance")
       IN  \/ /\ env[p].name \in Contracts /\ env[p].path = SourcePath(env[p].name)
              /\ Goto(p, [l EXCEPT !.abi = CompiledABI(env[p].name)], "d_args")
           \/ /\ ~(env[p].name \in Contracts /\ env[p].path = SourcePath(env[p].name))
              /\ Reject(p, l, Error("ArtifactNotFound"))
           \/ Reject(p, l, Error("ProviderError"))
    /\ UNCHANGED <<file, chain, txCount, runs, env, fv, fr, cfile, artifactFiles, voting, token>>

\* step 3 of main(): prepare the constructor arguments
DeployArgs(p) ==
    /\ pc[p] = "d_args"
    /\ LET r == PrepareConstructorArgs(env[p].args, ConstructorInputs(loc[p].abi))
       IN  IF r.threw
           THEN Reject(p, loc[p], Error("BadConstructorArgs"))
           ELSE Goto(p, [loc[p] EXCEPT !.args = r.v], "d_submit")
    /\ UNCHANGED <<file, chain, txCount, runs, env, fv, fr, cfile, artifactFiles, voting, token>>

\* artifact.connect(deployer).deploy(...parsedConstructorArgs): the arguments
\* are encoded, then the deployment transaction is sent
DeploySubmit(p) ==
    /\ pc[p] = "d_submit"
    /\ \/ /\ ~EncodableAll(loc[p].args, ConstructorInputs(loc[p].abi))
          /\ Reject(p, loc[p], Error("InvalidArgument"))
          /\ UNCHANGED txCount
       \/ /\ EncodableAll(loc[p].args, ConstructorInputs(loc[p].abi))
          /\ txCount' = txCount + 1
          /\ Goto(p, [Request(loc[p], "eth_sendTransaction") EXCEPT
                          !.txs = @ + 1, !.hash = TxHash(txCount + 1)], "d_wait")
       \/ /\ EncodableAll(loc[p].args, ConstructorInputs(loc[p].abi))
          /\ Reject(p, Request(loc[p], "eth_sendTransaction"), Error("ProviderError"))
          /\ UNCHANGED txCount
    /\ UNCHANGED <<file, chain, runs, env, fv, fr, cfile, artifactFiles, voting, token>>

\* The address of the next contract created, in checksum case (a set of one
\* address, or none when the address space is used up). The node derives it
\* from the deployer's address and nonce; here it is the first free one.
NewAddress ==
    LET free == LowerAddress \ DOMAIN chain
    IN  IF free = {} THEN {} ELSE {ChecksumAddress(CHOOSE k \in free : TRUE)}

\* A variant of DeployWait that does not wait for the receipt: the record is
\* built and handed to saveDeployment whether or not the contract exists
DeployWaitSkipped(p) ==
    /\ pc[p] = "d_wait"
    /\ \E a \in NewAddress :
          Goto(p, [loc[p] EXCEPT
                      !.saveTo = a,
                      !.info = DeployRecord(env[p].network, env[p].name, env[p].path,
                                            a, runs, loc[p].abi, loc[p].hash)],
               "save_read")
    /\ UNCHANGED <<file, chain, txCount, runs, env, fv, fr, cfile, artifactFiles, voting, token>>

\* waitForDeployment, getAddress, deploymentTransaction; then the record is
\* built and saveDeployment(contractAddress, deploymentEntry) is called.
\* getAddress returns the address of the new contract in checksum case.
DeployWait(p) ==
    /\ pc[p] = "d_wait"
    /\ \/ \E a \in NewAddress :
            /\ chain' = [k \in DOMAIN chain \cup {toLowerCase(a)} |->
                            IF k = toLowerCase(a)
                            THEN [contract |-> env[p].name,
                                  state |-> InitialState(env[p].name, loc[p].args)]
                            ELSE chain[k]]
            /\ Goto(p, [Request(loc[p], "eth_getTransactionReceipt") EXCEPT
                          !.saveTo = a,
                          !.info = DeployRecord(env[p].network, env[p].name, env[p].path,
                                                a, runs, loc[p].abi, loc[p].hash)],
                    "save_read")
       \/ /\ Reject(p, Request(loc[p], "eth_getTransactionReceipt"), Error("ProviderError"))
          /\ UNCHANGED chain
    /\ UNCHANGED <<file, txCount, runs, env, fv, fr, cfile, artifactFiles, voting, token>>

-----------------------------------------------------------------------------
(* saveDeployment, the same function in deploy.ts and in both import scripts *)

\* const deployments = readDeployments();
SaveRead(p) ==
    /\ pc[p] = "save_read"
    /\ Goto(p, [loc[p] EXCEPT !.deployments = readDeployments(file),
                               !.readAt = file.writes], "save_write")
    /\ UNCHANGED <<file, chain, txCount, runs, env, fv, fr, cfile, artifactFiles, voting, token>>

\* deployments[address.toLowerCase()] = info; fs.writeFileSync(...)
SaveWrite(p) ==
    /\ pc[p] = "save_write"
    /\ file' = writeFileSync(file, SetEntry(loc[p].deployments, loc[p].saveTo, loc[p].info))
    /\ Goto(p, [loc[p] EXCEPT !.wrote = TRUE, !.wroteAt = file.writes + 1], "summary")
    /\ UNCHANGED <<chain, txCount, runs, env, fv, fr, cfile, artifactFiles, voting, token>>

\* backendOutput of deploy and of the import scripts
BackendOutput(info) ==
    [contractAddress |-> info.contractAddress,
     transactionHash |-> IF "transactionHash" \in DOMAIN info THEN info.transactionHash
                         ELSE Null,
     contractName |-> info.contractName,
     artifactPath |-> info.artifactPath,
     abi |-> info.abi]

\* console.log(JSON.stringify(backendOutput, null, 2)); main() resolves and
\* .then calls process.exit(0)
PrintSummary(p) ==
    /\ pc[p] = "summary"
    /\ pc' = [pc EXCEPT ![p] = "done"]
    /\ out' = [out EXCEPT ![p] =
                  [json |-> Append(@.json, JSONStringifyObject(BackendOutput(loc[p].info))),
                   exit |-> 0]]
    /\ UNCHANGED <<file, chain, txCount, runs, env, loc, fv, fr, cfile, artifactFiles, voting, token>>

-----------------------------------------------------------------------------
(* The import scripts: import by ABI file and scripts/addUsingCode.ts *)

\* an ABI file entry that is null
NullItem ==
    [k |-> "null", typeofType |-> "undefined", type |-> "", name |-> "",
     inputs |-> << >>, stateMutability |-> ""]

\* an ABI file entry that is an object whose "type" is missing or no string
UntypedItem(typeofType) ==
    [k |-> "object", typeofType |-> typeofType, type |-> "", name |-> "balanceOf",
     inputs |-> << >>, stateMutability |-> "view"]

AbiFiles ==
    {"abis/TextStorage.json", "abis/Add.json", "abis/empty.json", "abis/null.json",
     "abis/notype.json", "abis/numtype.json", "abis/mixed.json", "abis/object.json",
     "abis/garbage.json", "abis/missing.json"}

SourceFiles ==
    {"contracts/Add.sol", "contracts/SimpleTextStorage.sol", "contracts/Ghost.sol",
     "contracts/missing.sol", "notes.txt"}

\* fs.existsSync
existsSync(path) == path \in (AbiFiles \cup SourceFiles) \ {"abis/missing.json", "contracts/missing.sol"}

\* sourceFilePath.endsWith(".sol")
EndsWithSol(path) == path \in SourceFiles \ {"notes.txt"}

\* fs.readFileSync(abiFilePath, "utf8")
readFileSync(path) ==
    CASE path = "abis/TextStorage.json" -> [ok |-> TRUE, json |-> JSArray(SimpleTextStorageABI)]
      [] path = "abis/Add.json"     -> [ok |-> TRUE, json |-> JSArray(AddABI)]
      [] path = "abis/empty.json"   -> [ok |-> TRUE, json |-> JSArray(<< >>)]
      [] path = "abis/null.json"    -> [ok |-> TRUE, json |-> JSArray(<<NullItem>>)]
      [] path = "abis/notype.json"  -> [ok |-> TRUE, json |-> JSArray(<<UntypedItem("undefined")>>)]
      [] path = "abis/numtype.json" -> [ok |-> TRUE, json |-> JSArray(<<UntypedItem("number")>>)]
      [] path = "abis/mixed.json"   ->
            [ok |-> TRUE, json |-> JSArray(Append(SimpleTextStorageABI, NullItem))]
      [] path = "abis/object.json"  -> [ok |-> TRUE, json |-> JSObject(<< >>)]
      [] OTHER                      -> BadText

\* A variant of validateABI that looks at no element
validateABIArrayOnly(abiArray) == IF IsArray(abiArray) THEN "true" ELSE "false"

\* validateABI(abiArray): "true", "false", or "threw" when an element is null
\* (reading .type of null is a TypeError); every() stops at the first element
\* that fails
validateABI(abiArray) ==
    IF ~IsArray(abiArray) THEN "false"
    ELSE LET items == abiArray.v
             bad == {i \in DOMAIN items :
                        \/ items[i].k # "object"
                        \/ items[i].typeofType # "string"}
         IN  IF bad = {} THEN "true"
             ELSE LET first == CHOOSE i \in bad : \A j \in bad : i <= j
                  IN  IF items[first].k = "null" THEN "threw" ELSE "false"

\* the parameterless view/pure function verifyContractAccessibility looks for
HasViewFunction(abi) ==
    \E i \in DOMAIN abi :
        /\ abi[i].type = "function"
        /\ abi[i].stateMutability \in {"view", "pure"}
        /\ Len(abi[i].inputs) = 0

ImportABIEnv(address, name, abiFile, netDeployed) ==
    [NoEnv EXCEPT !.script = "importABI", !.address = address, !.name = name,
                  !.abiFile = abiFile, !.netDeployed = netDeployed,
                  !.network = "localhost"]

SomeAddress == CHOOSE a \in Address : a # toLowerCase(a)

WellFormedAbiFiles == {"abis/TextStorage.json", "abis/Add.json", "abis/empty.json"}

ImportABIEnvs ==
    {ImportABIEnv(a, "Ext", f, "sepolia") : a \in Address \cup {BadAddress},
                                           f \in WellFormedAbiFiles}
    \cup {ImportABIEnv(SomeAddress, "Ext", f, "sepolia") : f \in AbiFiles}
    \cup {ImportABIEnv(NoAddress, "Ext", "abis/Add.json", "sepolia"),
          ImportABIEnv(SomeAddress, "Ext", "", "sepolia")}

ImportCodeEnv(address, name, sourceFile, netDeployed) ==
    [NoEnv EXCEPT !.script = "importCode", !.address = address, !.name = name,
                  !.sourceFile = sourceFile, !.netDeployed = netDeployed,
                  !.network = "localhost"]

ImportCodeEnvs ==
    {ImportCodeEnv(a, c, SourcePath(c), "sepolia") : a \in Address \cup {BadAddress},
                                                    c \in Contracts}
    \cup {ImportCodeEnv(SomeAddress, n[1], n[2], n[3]) :
            n \in {<<"Ghost", "contracts/Ghost.sol", "sepolia">>,
                   <<"Add", "contracts/missing.sol", "sepolia">>,
                   <<"Add", "notes.txt", "sepolia">>,
                   <<"Add", "contracts/Add.sol", "">>}}

\* the entry import-by-ABI writes
ImportABIRecord(networkDeployedOn, contractName, contractAddress, timestamp, abi) ==
    [network |-> networkDeployedOn,
     contractName |-> contractName,
     contractAddress |-> toLowerCase(contractAddress),
     timestamp |-> timestamp,
     deploymentType |-> "external_abi",
     artifactPath |-> Null,
     uid |-> Null,
     abi |-> abi]

\* the entry import-by-source writes
ImportCodeRecord(networkDeployedOn, contractName, contractAddress, timestamp, abi) ==
    [network |-> networkDeployedOn,
     contractName |-> contractName,
     contractAddress |-> toLowerCase(contractAddress),
     timestamp |-> timestamp,
     deploymentType |-> "external_code",
     artifactPath |-> Null,
     uid |-> Null,
     abi |-> abi]

\* import by ABI, main() up to its first await: the environment, address
\* and file checks, then the ABI file is read, parsed and validated
ImportABIStart(p, envs) ==
    \E e \in envs :
        /\ Begin(p, e)
        /\ IF \/ e.address = NoAddress \/ e.name = ""
              \/ e.abiFile = "" \/ e.netDeployed = ""
           THEN Reject(p, Fresh, Error("MissingEnv"))
           ELSE IF ~validateAddress(e.address)
           THEN Reject(p, Fresh, Error("InvalidAddress"))
           ELSE IF ~existsSync(e.abiFile)
           THEN Reject(p, Fresh, Error("FileNotFound"))
           ELSE LET parsed == JSONParse(readFileSync(e.abiFile))
                IN  IF parsed.threw
                    THEN Reject(p, Fresh, Error("AbiParseError"))
                    ELSE IF validateABI(parsed.v) # "true"
                    THEN Reject(p, Fresh, Error("AbiParseError"))
                    ELSE Goto(p, [Fresh EXCEPT !.abi = parsed.v.v], "probe")
        /\ UNCHANGED <<file, chain, txCount, fv, fr, cfile, artifactFiles, voting, token>>

\* import by source, main() up to its first await: the environment, address
\* and file checks
ImportCodeStart(p, envs) ==
    \E e \in envs :
        /\ Begin(p, e)
        /\ IF \/ e.address = NoAddress \/ e.name = ""
              \/ e.sourceFile = "" \/ e.netDeployed = ""
           THEN Reject(p, Fresh, Error("MissingEnv"))
           ELSE IF ~validateAddress(e.address)
           THEN Reject(p, Fresh, Error("InvalidAddress"))
           ELSE IF ~existsSync(e.sourceFile)
           THEN Reject(p, Fresh, Error("FileNotFound"))
           ELSE IF ~EndsWithSol(e.sourceFile)
           THEN Reject(p, Fresh, Error("NotSolidity"))
           ELSE Goto(p, Fresh, "ic_compile")
        /\ UNCHANGED <<file, chain, txCount, fv, fr, cfile, artifactFiles, voting, token>>

\* import by source: await run("compile"), then the ABI is taken from
\* artifacts/contracts/<name>.sol/<name>.json
ImportCodeCompile(p) ==
    /\ pc[p] = "ic_compile"
    /\ \/ /\ env[p].name \in Contracts
          /\ Goto(p, [loc[p] EXCEPT !.abi = CompiledABI(env[p].name)], "probe")
       \/ /\ env[p].name \notin Contracts
          /\ Reject(p, loc[p], Error("ArtifactNotFound"))
       \/ Reject(p, loc[p], Error("CompileFailed"))
    /\ UNCHANGED <<file, chain, txCount, runs, env, fv, fr, cfile, artifactFiles, voting, token>>

\* the record either import script hands to saveDeployment
ImportRecord(e, timestamp, abi) ==
    IF e.script = "importABI"
    THEN ImportABIRecord(e.netDeployed, e.name, e.address, timestamp, abi)
    ELSE ImportCodeRecord(e.netDeployed, e.name, e.address, timestamp, abi)

\* A variant of Probe in which a failed probe call ends the import
ProbeFatal(p) ==
    /\ pc[p] = "probe"
    /\ LET l == [Request(loc[p], "eth_accounts") EXCEPT
                    !.saveTo = env[p].address,
                    !.info = ImportRecord(env[p], runs, loc[p].abi)]
       IN  \/ /\ HasViewFunction(loc[p].abi)
              /\ Goto(p, [Request(l, "eth_call") EXCEPT !.probe = "called"], "save_read")
           \/ /\ HasViewFunction(loc[p].abi)
              /\ Reject(p, [Request(l, "eth_call") EXCEPT !.probe = "threw"],
                        Error("ProviderError"))
           \/ /\ ~HasViewFunction(loc[p].abi)
              /\ Goto(p, [l EXCEPT !.probe = "skipped"], "save_read")
    /\ UNCHANGED <<file, chain, txCount, runs, env, fv, fr, cfile, artifactFiles, voting, token>>

\* await verifyContractAccessibility(contractAddress, abi): whatever it
\* returns or catches, main() goes on to build the record and to call
\* saveDeployment(contractAddress, deploymentEntry)
Probe(p) ==
    /\ pc[p] = "probe"
    /\ LET l == [Request(loc[p], "eth_accounts") EXCEPT
                    !.saveTo = env[p].address,
                    !.info = ImportRecord(env[p], runs, loc[p].abi)]
       IN  \/ /\ HasViewFunction(loc[p].abi)
              /\ Goto(p, [Request(l, "eth_call") EXCEPT !.probe = "called"], "save_read")
           \/ /\ HasViewFunction(loc[p].abi)
              /\ Goto(p, [Request(l, "eth_call") EXCEPT !.probe = "threw"], "save_read")
           \/ /\ ~HasViewFunction(loc[p].abi)
              /\ Goto(p, [l EXCEPT !.probe = "skipped"], "save_read")
    /\ UNCHANGED <<file, chain, txCount, runs, env, fv, fr, cfile, artifactFiles, voting, token>>

-----------------------------------------------------------------------------
(* The interact script (environment driven) *)

\* isNaN(Number(key)) for the property names that occur: index-like names
\* convert to a number, field names do not
KeyIsNaN(key) == key \notin {"0", "1", "2"}

\* A variant of formatReturnValue that does not walk arrays and objects
formatReturnValueShallow(value) ==
    IF value.t = "bigint" THEN JSString(BigIntToString(value.v)) ELSE value

\* formatReturnValue(value)
RECURSIVE formatReturnValue(_)
formatReturnValue(value) ==
    IF value.t = "bigint"
    THEN JSString(BigIntToString(value.v))
    ELSE IF IsArrayValue(value)
    THEN JSArray([i \in DOMAIN value.v |-> formatReturnValue(value.v[i])])
    ELSE IF value.t = "object"
    THEN JSObject([key \in {k \in DOMAIN value.v : KeyIsNaN(k)} |->
                      formatReturnValue(value.v[key])])
    ELSE value

\* A variant of parseFunctionArgs that does not compare the lengths
parseFunctionArgsAnyLength(argsString, expectedTypes) ==
    IF argsString = ""
    THEN [threw |-> Len(expectedTypes) > 0, v |-> << >>]
    ELSE LET parsed == JSONParse(ArgText(argsString))
         IN  IF parsed.threw THEN [threw |-> TRUE, v |-> << >>]
             ELSE IF ~IsArray(parsed.v) THEN [threw |-> TRUE, v |-> << >>]
             ELSE [threw |-> FALSE, v |-> parsed.v.v]

\* parseFunctionArgs(argsString, expectedTypes): [threw, v]
parseFunctionArgs(argsString, expectedTypes) ==
    IF argsString = ""
    THEN [threw |-> Len(expectedTypes) > 0, v |-> << >>]
    ELSE LET parsed == JSONParse(ArgText(argsString))
         IN  IF parsed.threw THEN [threw |-> TRUE, v |-> << >>]
             ELSE IF ~IsArray(parsed.v) THEN [threw |-> TRUE, v |-> << >>]
             ELSE IF Len(parsed.v.v) # Len(expectedTypes) THEN [threw |-> TRUE, v |-> << >>]
             ELSE [threw |-> FALSE, v |-> parsed.v.v]

\* A variant of the lookup key: the address as it was given
TargetAddressAsGiven(contractAddress) == contractAddress

\* const targetAddress = contractAddress.toLowerCase()
TargetAddress(contractAddress) == toLowerCase(contractAddress)

\* A variant of getFunction that takes any function for the one asked for
getFunctionAny(abi, functionName) ==
    {i \in DOMAIN abi : abi[i].type = "function"}

\* contract.interface.getFunction(functionName): the set of matching
\* positions (empty: null is returned)
getFunction(abi, functionName) ==
    {i \in DOMAIN abi : abi[i].type = "function" /\ abi[i].name = functionName}

FunctionNames == {"getText", "setText", "get", "set", "nope"}

InteractEnv(address, fn, args, network) ==
    [NoEnv EXCEPT !.script = "interact", !.address = address, !.fn = fn,
                  !.args = args, !.network = network]

\* the CONTRACT_ARGS strings tried
FunctionArgStrings == ArgStrings \ {"[7,8]"}

InteractEnvs ==
    {InteractEnv(a, f, s, "localhost") : a \in Address, f \in FunctionNames,
                                        s \in FunctionArgStrings}
    \cup {InteractEnv(NoAddress, "getText", "", "localhost"),
          InteractEnv(SomeAddress, "", "", "localhost"),
          InteractEnv(SomeAddress, "getText", "", "")}

\* A variant of errorResult that reports success
ErrorResultAsSuccess(error, contractAddress, functionName, network, timestamp) ==
    [success |-> TRUE,
     error |-> error,
     contractAddress |-> contractAddress,
     functionName |-> functionName,
     network |-> network,
     timestamp |-> timestamp,
     functionType |-> "view"]

\* errorResult: the object printed on a failure
ErrorResult(error, contractAddress, functionName, network, timestamp) ==
    [success |-> FALSE,
     error |-> error,
     contractAddress |-> contractAddress,
     functionName |-> functionName,
     network |-> network,
     timestamp |-> timestamp,
     functionType |-> "view"]

\* outputBackendResult(result)
outputBackendResult(o, result) == [o EXCEPT !.json = Append(@, JSONStringifyObject(result))]

\* A variant of Catch whose error result tells of the transaction sent
CatchAsTransaction(p, en, t, l, e) ==
    /\ pc' = [pc EXCEPT ![p] = "done"]
    /\ loc' = [loc EXCEPT ![p] = [l EXCEPT !.err = e]]
    /\ out' = [out EXCEPT ![p] =
                 [outputBackendResult(@,
                     [ErrorResult(e, en.address, en.fn, en.network, t) EXCEPT
                         !.functionType = IF l.txs > 0 THEN "transaction" ELSE "view"])
                    EXCEPT !.exit = 1]]

\* A variant of Catch that prints no error result
CatchSilent(p, en, t, l, e) == Reject(p, l, e)

\* an error e is thrown in an invocation with environment en at time t: the
\* error result is printed (by the checks before the try block, or by its
\* catch block, which throws the error again) and the process exits 1
Catch(p, en, t, l, e) ==
    /\ pc' = [pc EXCEPT ![p] = "done"]
    /\ loc' = [loc EXCEPT ![p] = [l EXCEPT !.err = e]]
    /\ out' = [out EXCEPT ![p] =
                 [outputBackendResult(@, ErrorResult(e, en.address, en.fn, en.network, t))
                    EXCEPT !.exit = 1]]

\* main() up to its first await: the environment checks, then steps 1 and 2:
\* the ledger is read and the record looked up under the lower-cased address
InteractStart(p, envs) ==
    \E e \in envs :
        /\ Begin(p, e)
        /\ IF e.address = NoAddress \/ e.fn = ""
           THEN Catch(p, e, runs + 1, Fresh, Error("MissingEnv"))
           ELSE IF e.network = ""
           THEN Catch(p, e, runs + 1, Fresh, Error("NoNetwork"))
           ELSE LET deployments == readDeployments(file)
                    targetAddress == TargetAddress(e.address)
                IN  IF targetAddress \notin DOMAIN deployments
                    THEN Catch(p, e, runs + 1, Fresh,
                               [kind |-> "ContractNotFound", address |-> targetAddress,
                                fn |-> ""])
                    ELSE Goto(p, [Fresh EXCEPT !.abi = deployments[targetAddress].abi,
                                                !.deployments = deployments], "i_contract")
        /\ UNCHANGED <<file, chain, txCount, fv, fr, cfile, artifactFiles, voting, token>>

\* step 3: ethers.getContractAt(abi, targetAddress). No signer is passed, so
\* the hardhat plugin asks the provider for the accounts (eth_accounts) to
\* pick the first one as the contract's runner.
InteractGetContract(p) ==
    /\ pc[p] = "i_contract"
    /\ Goto(p, Request(loc[p], "eth_accounts"), "i_resolve")
    /\ UNCHANGED <<file, chain, txCount, runs, env, fv, fr, cfile, artifactFiles, voting, token>>

\* step 4: the function is resolved and the arguments are parsed
InteractResolve(p) ==
    /\ pc[p] = "i_resolve"
    /\ LET found == getFunction(loc[p].abi, env[p].fn)
       IN  IF found = {}
           THEN Catch(p, env[p], runs, loc[p], [kind |-> "FunctionNotFound", address |-> NoAddress,
                                  fn |-> env[p].fn])
           ELSE LET fragment == loc[p].abi[CHOOSE i \in found : TRUE]
                    r == parseFunctionArgs(env[p].args, fragment.inputs)
                IN  IF r.threw
                    THEN Catch(p, env[p], runs, loc[p], Error("BadFunctionArgs"))
                    ELSE Goto(p, [loc[p] EXCEPT !.args = r.v],
                              IF fragment.stateMutability \in {"view", "pure"}
                              THEN "i_call" ELSE "i_send")
    /\ UNCHANGED <<file, chain, txCount, runs, env, fv, fr, cfile, artifactFiles, voting, token>>

\* the function the invocation resolved
Fragment_(p) == loc[p].abi[CHOOSE i \in getFunction(loc[p].abi, env[p].fn) : TRUE]

\* does the contract deployed at address a implement function fn
Implements(a, fn) ==
    /\ a \in DOMAIN chain
    /\ getFunction(CompiledABI(chain[a].contract), fn) # {}

\* step 5, view/pure: one read call; the value is normalized and the success
\* result printed, then main() resolves and the process exits 0
InteractCall(p) ==
    /\ pc[p] = "i_call"
    /\ LET targetAddress == TargetAddress(env[p].address)
           l == Request(loc[p], "eth_call")
       IN  \/ /\ Implements(targetAddress, env[p].fn)
              /\ pc' = [pc EXCEPT ![p] = "done"]
              /\ loc' = [loc EXCEPT ![p] = l]
              /\ out' = [out EXCEPT ![p] =
                           [outputBackendResult(@,
                               [success |-> TRUE,
                                contractAddress |-> targetAddress,
                                functionName |-> env[p].fn,
                                network |-> env[p].network,
                                timestamp |-> runs,
                                functionType |-> "view",
                                result |-> formatReturnValue(chain[targetAddress].state)])
                            EXCEPT !.exit = 0]]
           \/ /\ ~Implements(targetAddress, env[p].fn)
              /\ Catch(p, env[p], runs, l, Error("CallException"))
           \/ Catch(p, env[p], runs, l, Error("ProviderError"))
    /\ UNCHANGED <<file, chain, txCount, runs, env, fv, fr, cfile, artifactFiles, voting, token>>

\* A variant of InteractSend that sends the transaction a second time
InteractSendTwice(p) ==
    /\ pc[p] = "i_send"
    /\ txCount' = txCount + 2
    /\ Goto(p, [Request(Request(Request(loc[p], "eth_accounts"), "eth_sendTransaction"),
                        "eth_sendTransaction") EXCEPT
                    !.txs = @ + 2, !.hash = TxHash(txCount + 2)], "i_wait")
    /\ UNCHANGED <<file, chain, runs, env, fv, fr, cfile, artifactFiles, voting, token>>

\* step 5, otherwise: the first signer is fetched and the transaction sent
InteractSend(p) ==
    /\ pc[p] = "i_send"
    /\ LET targetAddress == TargetAddress(env[p].address)
           l == Request(loc[p], "eth_accounts")
       IN  \/ /\ ~EncodableAll(loc[p].args, Fragment_(p).inputs)
              /\ Catch(p, env[p], runs, l, Error("InvalidArgument"))
              /\ UNCHANGED txCount
           \/ /\ EncodableAll(loc[p].args, Fragment_(p).inputs)
              /\ targetAddress \in DOMAIN chain => Implements(targetAddress, env[p].fn)
              /\ txCount' = txCount + 1
              /\ Goto(p, [Request(l, "eth_sendTransaction") EXCEPT
                              !.txs = @ + 1, !.hash = TxHash(txCount + 1)], "i_wait")
           \/ /\ EncodableAll(loc[p].args, Fragment_(p).inputs)
              /\ Catch(p, env[p], runs, Request(l, "eth_sendTransaction"), Error("ProviderError"))
              /\ UNCHANGED txCount
    /\ UNCHANGED <<file, chain, runs, env, fv, fr, cfile, artifactFiles, voting, token>>

\* the log entries of the receipt, parsed: a call of set / setText on a
\* contract emits one event, a transaction to an address without code none
ParsedLogs(targetAddress, fn) ==
    IF targetAddress \in DOMAIN chain
    THEN <<[name |-> IF fn = "set" THEN "ValueChanged" ELSE "TextUpdated", index |-> 0]>>
    ELSE << >>

\* A variant of InteractWait that files the confirmed transaction in the
\* ledger, under the address called
InteractWaitRecording(p) ==
    /\ pc[p] = "i_wait"
    /\ file' = writeFileSync(file, SetEntry(readDeployments(file), env[p].address,
                                            [deploymentType |-> "local",
                                             transactionHash |-> loc[p].hash]))
    /\ Reject(p, Request(loc[p], "eth_getTransactionReceipt"), Error("ProviderError"))
    /\ UNCHANGED <<chain, txCount, runs, env, fv, fr, cfile, artifactFiles, voting, token>>

\* await tx.wait(), the logs are parsed, the success result is printed
InteractWait(p) ==
    /\ pc[p] = "i_wait"
    /\ LET targetAddress == TargetAddress(env[p].address)
           l == Request(loc[p], "eth_getTransactionReceipt")
           parsedLogs == ParsedLogs(targetAddress, env[p].fn)
       IN  \/ /\ chain' = [k \in DOMAIN chain |->
                             IF k = targetAddress
                             THEN [chain[k] EXCEPT
                                     !.state = StoredState(chain[k].contract, loc[p].args)]
                             ELSE chain[k]]
              /\ pc' = [pc EXCEPT ![p] = "done"]
              /\ loc' = [loc EXCEPT ![p] = l]
              /\ out' = [out EXCEPT ![p] =
                           [outputBackendResult(@,
                               [success |-> TRUE,
                                contractAddress |-> targetAddress,
                                functionName |-> env[p].fn,
                                network |-> env[p].network,
                                timestamp |-> runs,
                                functionType |-> "transaction",
                                transactionHash |-> loc[p].hash,
                                gasUsed |-> <<"2", "1", "0", "0", "0">>,
                                blockNumber |-> txCount,
                                logs |-> IF Len(parsedLogs) > 0 THEN Some(parsedLogs) ELSE None,
                                signerAddress |-> "signer0"])
                            EXCEPT !.exit = 0]]
           \/ /\ Catch(p, env[p], runs, l, Error("ProviderError"))
              /\ UNCHANGED chain
    /\ UNCHANGED <<file, txCount, runs, env, fv, fr, cfile, artifactFiles, voting, token>>

-----------------------------------------------------------------------------
(* The positional scripts: their ledger is contracts/deployments.json *)

\* the artifact string "contracts/<name>.sol:<name>", as split(":") cuts it
ArtifactName(contractName) ==
    [filePath |-> <<"contracts/", contractName, ".sol">>, contractName |-> contractName]

\* the artifacts directory after hardhat compile
CompiledArtifacts ==
    [a \in {ArtifactName(c) : c \in Contracts} |->
        JSArray(CompiledABI(CHOOSE c \in Contracts : ArtifactName(c) = a))]

\* the record the positional scripts store
PositionalRecord(contractName) ==
    [contract |-> contractName, artifact |-> ArtifactName(contractName)]

\* deployments[address] = record
AddEntry(deployments, address, record) ==
    [k \in DOMAIN deployments \cup {address} |->
        IF k = address THEN record ELSE deployments[k]]

\* fs.writeFileSync(path.join(artifactDir, `${contractName}.json`), ...)
WriteArtifact(files, contractName, contractABI) ==
    [a \in DOMAIN files \cup {ArtifactName(contractName)} |->
        IF a = ArtifactName(contractName) THEN contractABI ELSE files[a]]

\* both add-external scripts, "1. Add to deployments.json" and "2. Create
\* artifact", then main() resolves and .then calls process.exit(0)
AddExternalSave(p, l, address, contractName) ==
    /\ cfile' = writeFileSync(cfile, AddEntry(readDeployments(cfile), address,
                                              PositionalRecord(contractName)))
    /\ artifactFiles' = WriteArtifact(artifactFiles, contractName, l.contractABI)
    /\ pc' = [pc EXCEPT ![p] = "done"]
    /\ loc' = [loc EXCEPT ![p] = [l EXCEPT !.wrote = TRUE]]
    /\ out' = [out EXCEPT ![p].exit = 0]

\* the ABI files the positional scripts are given
PositionalAbiFiles == {"abis/TextStorage.json", "abis/empty.json", "abis/garbage.json"}

AddNamedEnv(address, contractName, abiPath) ==
    [NoEnv EXCEPT !.script = "addNamed", !.address = address, !.name = contractName,
                  !.abiFile = abiPath]

AddNamedEnvs ==
    {AddNamedEnv(a, "Ext", f) : a \in Address, f \in PositionalAbiFiles}
    \cup {AddNamedEnv(NoAddress, "Ext", "abis/TextStorage.json"),
          AddNamedEnv(SomeAddress, "", "abis/TextStorage.json"),
          AddNamedEnv(SomeAddress, "Ext", "")}

\* add-external with a contract name: main() has no await
AddNamed(p, envs) ==
    \E e \in envs :
        /\ Begin(p, e)
        /\ IF e.address = NoAddress \/ e.name = "" \/ e.abiFile = ""
           THEN Reject(p, Fresh, Error("Usage")) /\ UNCHANGED <<cfile, artifactFiles>>
           ELSE LET parsed == JSONParse(readFileSync(e.abiFile))
                IN  IF parsed.threw
                    THEN Reject(p, Fresh, Error("AbiFile")) /\ UNCHANGED <<cfile, artifactFiles>>
                    ELSE AddExternalSave(p, [Fresh EXCEPT !.contractABI = parsed.v],
                                         e.address, e.name)
        /\ UNCHANGED <<file, chain, txCount, fv, fr, voting, token>>

AddExternalEnv(address, abiPath) ==
    [NoEnv EXCEPT !.script = "addExternal", !.address = address, !.abiFile = abiPath]

AddExternalEnvs ==
    {AddExternalEnv(a, f) : a \in Address, f \in PositionalAbiFiles}
    \cup {AddExternalEnv(NoAddress, "abis/TextStorage.json"),
          AddExternalEnv(SomeAddress, "")}

\* scripts/addExternalContract.ts, main() up to await provider.getCode
AddExternalStart(p, envs) ==
    \E e \in envs :
        /\ Begin(p, e)
        /\ IF e.address = NoAddress \/ e.abiFile = ""
           THEN Reject(p, Fresh, Error("Usage"))
           ELSE LET parsed == JSONParse(readFileSync(e.abiFile))
                IN  IF parsed.threw
                    THEN Reject(p, Fresh, Error("AbiFile"))
                    ELSE Goto(p, [Fresh EXCEPT !.contractABI = parsed.v], "x_code")
        /\ UNCHANGED <<file, chain, txCount, fv, fr, cfile, artifactFiles, voting, token>>

\* the view/pure functions of the ABI, in order
ViewFunctions(abi) ==
    SelectSeq(abi, LAMBDA fn : fn.type = "function" /\ fn.stateMutability \in {"view", "pure"})

\* the code check: an address ethers rejects, a failed request and an address
\* without code end the script; with no view function to call the entry is
\* saved at once
AddExternalGetCode(p) ==
    /\ pc[p] = "x_code"
    /\ LET l == Request(loc[p], "eth_getCode")
       IN  \/ /\ ~validateAddress(env[p].address)
              /\ Reject(p, loc[p], Error("InvalidAddress"))
              /\ UNCHANGED <<cfile, artifactFiles>>
           \/ /\ validateAddress(env[p].address)
              /\ Reject(p, l, Error("ProviderError"))
              /\ UNCHANGED <<cfile, artifactFiles>>
           \/ /\ validateAddress(env[p].address)
              /\ IF toLowerCase(env[p].address) \notin DOMAIN chain
                 THEN Reject(p, l, Error("NoContract")) /\ UNCHANGED <<cfile, artifactFiles>>
                 ELSE IF ~IsArray(l.contractABI)
                 THEN Reject(p, l, Error("InvalidAbi")) /\ UNCHANGED <<cfile, artifactFiles>>
                 ELSE IF Len(ViewFunctions(l.contractABI.v)) > 0
                 THEN Goto(p, l, "x_probe") /\ UNCHANGED <<cfile, artifactFiles>>
                 ELSE AddExternalSave(p, l, env[p].address, "ExternalContract")
    /\ UNCHANGED <<file, chain, txCount, runs, env, fv, fr, voting, token>>

\* await contract[viewFunctions[0].name](): a failure is only warned about,
\* then the entry is saved
AddExternalProbe(p) ==
    /\ pc[p] = "x_probe"
    /\ \E r \in {"ok", "threw"} :
        /\ r = "ok" => Implements(toLowerCase(env[p].address),
                                  ViewFunctions(loc[p].contractABI.v)[1].name)
        /\ AddExternalSave(p, [Request(loc[p], "eth_call") EXCEPT !.probe = r],
                           env[p].address, "ExternalContract")
    /\ UNCHANGED <<file, chain, txCount, runs, env, fv, fr, voting, token>>

(* scripts/interact.ts *)

\* the command-line tokens tried ("0xAb" stands for 0x and 40 hex digits),
\* the characters of each and the JSON text each one is
ArgTokens == {"true", "false", "7", "07", "hi", "\"hi\"", "null", "[7]", "0xAb"}

TokenChars(arg) ==
    CASE arg = "hi"     -> <<"h", "i">>
      [] arg = "\"hi\"" -> <<"\"", "h", "i", "\"">>
      [] arg = "7"      -> <<"7">>
      [] arg = "07"     -> <<"0", "7">>
      [] arg = "0xAb"   -> <<"0", "x", "A", "b">>
      [] arg = "true"   -> <<"t", "r", "u", "e">>
      [] arg = "false"  -> <<"f", "a", "l", "s", "e">>
      [] arg = "null"   -> <<"n", "u", "l", "l">>
      [] arg = "[7]"    -> <<"[", "7", "]">>
      [] OTHER          -> << >>

\* a number with a leading zero and a hexadecimal number are no JSON
TokenText(arg) ==
    CASE arg = "true"   -> [ok |-> TRUE, json |-> JSBool(TRUE)]
      [] arg = "false"  -> [ok |-> TRUE, json |-> JSBool(FALSE)]
      [] arg = "7"      -> [ok |-> TRUE, json |-> JSNumber(7)]
      [] arg = "\"hi\"" -> [ok |-> TRUE, json |-> JSString(<<"h", "i">>)]
      [] arg = "null"   -> [ok |-> TRUE, json |-> JSNull]
      [] arg = "[7]"    -> [ok |-> TRUE, json |-> JSArray(<<JSNumber(7)>>)]
      [] OTHER          -> BadText

\* Number(arg): [nan, v]; Number reads a leading zero and the 0x prefix
TokenNumber(arg) ==
    CASE arg \in {"7", "07"} -> [nan |-> FALSE, v |-> 7]
      [] arg = "0xAb"        -> [nan |-> FALSE, v |-> 171]
      [] OTHER               -> [nan |-> TRUE, v |-> 0]

\* /^0x[a-fA-F0-9]{40}$/.test(arg)
IsAddressToken(arg) == arg = "0xAb"

\* A variant of the coercion in which the number rule comes first
CoerceArgNumberFirst(arg) ==
    IF arg \in {"true", "false"} THEN JSBool(arg = "true")
    ELSE IF ~TokenNumber(arg).nan THEN JSNumber(TokenNumber(arg).v)
    ELSE IF IsAddressToken(arg) THEN JSString(TokenChars(arg))
    ELSE LET parsed == JSONParse(TokenText(arg))
         IN  IF ~parsed.threw THEN parsed.v ELSE JSString(TokenChars(arg))

\* fnArgsRaw.map(...): one argument coerced
CoerceArg(arg) ==
    IF arg \in {"true", "false"} THEN JSBool(arg = "true")
    ELSE IF IsAddressToken(arg) THEN JSString(TokenChars(arg))
    ELSE LET parsed == JSONParse(TokenText(arg))
         IN  IF ~parsed.threw THEN parsed.v
             ELSE IF ~TokenNumber(arg).nan THEN JSNumber(TokenNumber(arg).v)
             ELSE JSString(TokenChars(arg))

PositionalInteractEnv(address, fnName, fnArgsRaw) ==
    [NoEnv EXCEPT !.script = "positionalInteract", !.address = address, !.fn = fnName,
                  !.argv = fnArgsRaw]

PositionalInteractEnvs ==
    {PositionalInteractEnv(a, f, args) : a \in Address, f \in {"getText", "setText", "nope"},
                                         args \in {<< >>, <<"hi">>}}
    \cup {PositionalInteractEnv(SomeAddress, "setText", <<t>>) : t \in ArgTokens}
    \cup {PositionalInteractEnv(NoAddress, "getText", << >>),
          PositionalInteractEnv(SomeAddress, "", << >>)}

\* the module is loaded (the import of ../contracts/deployments.json fails
\* when there is no such file), the arguments are checked and coerced, and
\* main() runs up to await ethers.getContractAt: getABIForAddress looks the
\* address up in lower case and reads the artifact the entry names
PositionalInteractStart(p, envs) ==
    \E e \in envs :
        /\ Begin(p, e)
        /\ IF ~cfile.exists
           THEN Reject(p, Fresh, Error("ModuleNotFound"))
           ELSE IF e.address = NoAddress \/ e.fn = ""
           THEN Reject(p, Fresh, Error("Usage"))
           ELSE LET deployments == JSONParse(cfile.raw).v
                    key == toLowerCase(e.address)
                    fnArgs == [i \in DOMAIN e.argv |-> CoerceArg(e.argv[i])]
                IN  IF key \notin DOMAIN deployments
                    THEN Reject(p, Fresh, [kind |-> "NoDeploymentEntry", address |-> e.address,
                                           fn |-> ""])
                    ELSE IF deployments[key].artifact \notin DOMAIN artifactFiles
                    THEN Reject(p, Fresh, Error("ArtifactNotFound"))
                    ELSE Goto(p, [Fresh EXCEPT
                                    !.contractABI = artifactFiles[deployments[key].artifact],
                                    !.args = fnArgs], "pi_contract")
        /\ UNCHANGED <<file, chain, txCount, fv, fr, cfile, artifactFiles, voting, token>>

\* the functions of that name in the ABI: abi.find takes the first
FindFunction(abi, fnName) ==
    SelectSeq(abi, LAMBDA f : f.name = fnName /\ f.type = "function")

\* await ethers.getContractAt(abi, address), which asks for the accounts,
\* then abi.find
PositionalInteractGetContract(p) ==
    /\ pc[p] = "pi_contract"
    /\ LET l == Request(loc[p], "eth_accounts")
       IN  IF ~IsArray(l.contractABI)
           THEN Reject(p, l, Error("InvalidAbi"))
           ELSE LET found == FindFunction(l.contractABI.v, env[p].fn)
                IN  IF Len(found) = 0
                    THEN Reject(p, l, [kind |-> "FunctionNotFound", address |-> NoAddress,
                                       fn |-> env[p].fn])
                    ELSE Goto(p, [l EXCEPT !.abi = l.contractABI.v],
                              IF found[1].stateMutability \in {"view", "pure"}
                              THEN "pi_call" ELSE "pi_signers")
    /\ UNCHANGED <<file, chain, txCount, runs, env, fv, fr, cfile, artifactFiles, voting, token>>

\* can ethers send a call or a transaction with these arguments to the address
Sendable(p) ==
    /\ validateAddress(env[p].address)
    /\ EncodableAll(loc[p].args, Fragment_(p).inputs)

\* view/pure: one read call; the result is logged, main() resolves and the
\* process ends with exit code 0
PositionalInteractCall(p) ==
    /\ pc[p] = "pi_call"
    /\ \/ /\ ~Sendable(p)
          /\ Reject(p, loc[p], Error("InvalidArgument"))
       \/ /\ Sendable(p)
          /\ Implements(toLowerCase(env[p].address), env[p].fn)
          /\ pc' = [pc EXCEPT ![p] = "done"]
          /\ loc' = [loc EXCEPT ![p] = Request(loc[p], "eth_call")]
          /\ out' = [out EXCEPT ![p].exit = 0]
       \/ /\ Sendable(p)
          /\ ~Implements(toLowerCase(env[p].address), env[p].fn)
          /\ Reject(p, Request(loc[p], "eth_call"), Error("CallException"))
       \/ /\ Sendable(p)
          /\ Reject(p, Request(loc[p], "eth_call"), Error("ProviderError"))
    /\ UNCHANGED <<file, chain, txCount, runs, env, fv, fr, cfile, artifactFiles, voting, token>>

\* otherwise: const [signer] = await ethers.getSigners()
PositionalInteractSigners(p) ==
    /\ pc[p] = "pi_signers"
    /\ Goto(p, Request(loc[p], "eth_accounts"), "pi_send")
    /\ UNCHANGED <<file, chain, txCount, runs, env, fv, fr, cfile, artifactFiles, voting, token>>

\* contract.connect(signer)[fnName](...fnArgs): the transaction is sent
PositionalInteractSend(p) ==
    /\ pc[p] = "pi_send"
    /\ LET a == toLowerCase(env[p].address)
       IN  \/ /\ ~Sendable(p)
              /\ Reject(p, loc[p], Error("InvalidArgument"))
              /\ UNCHANGED txCount
           \/ /\ Sendable(p)
              /\ a \in DOMAIN chain => Implements(a, env[p].fn)
              /\ txCount' = txCount + 1
              /\ Goto(p, [Request(loc[p], "eth_sendTransaction") EXCEPT
                              !.txs = @ + 1, !.hash = TxHash(txCount + 1)], "pi_wait")
           \/ /\ Sendable(p)
              /\ Reject(p, Request(loc[p], "eth_sendTransaction"), Error("ProviderError"))
              /\ UNCHANGED txCount
    /\ UNCHANGED <<file, chain, runs, env, fv, fr, cfile, artifactFiles, voting, token>>

\* await tx.wait(); main() resolves and the process ends with exit code 0
PositionalInteractWait(p) ==
    /\ pc[p] = "pi_wait"
    /\ LET a == toLowerCase(env[p].address)
           l == Request(loc[p], "eth_getTransactionReceipt")
       IN  \/ /\ chain' = [k \in DOMAIN chain |->
                             IF k = a
                             THEN [chain[k] EXCEPT
                                     !.state = StoredState(chain[k].contract, loc[p].args)]
                             ELSE chain[k]]
              /\ pc' = [pc EXCEPT ![p] = "done"]
              /\ loc' = [loc EXCEPT ![p] = l]
              /\ out' = [out EXCEPT ![p].exit = 0]
           \/ /\ Reject(p, l, Error("ProviderError"))
              /\ UNCHANGED chain
    /\ UNCHANGED <<file, txCount, runs, env, fv, fr, cfile, artifactFiles, voting, token>>

-----------------------------------------------------------------------------
(* The Voting contract *)

\* the accounts that send transactions
Accounts == {"alice", "bob", "carol"}

CandidateNames == {"Ann"}

\* a call: the function, msg.sender, the arguments, and whether it reverted
VotingCall(fn, sender, name, voter, candidateId) ==
    [fn |-> fn, sender |-> sender, name |-> name, voter |-> voter,
     candidateId |-> candidateId, reverted |-> FALSE]

\* the storage after constructor(), sent by sender: mappings hold the zero
\* value under every key
VotingConstructor(sender) ==
    [owner |-> sender,
     votingActive |-> FALSE,
     candidates |-> [i \in 1..MaxCandidates |-> [id |-> 0, name |-> "", voteCount |-> 0]],
     voters |-> [a \in Accounts |->
                    [isRegistered |-> FALSE, hasVoted |-> FALSE, votedFor |-> 0]],
     candidateCount |-> 0]

\* no Voting contract has been deployed
NoVoting == [st |-> << >>, prev |-> << >>, call |-> VotingCall("none", "", "", "", 0)]

\* the transaction of call c ends with storage st
VotingCommit(c, st) ==
    /\ voting' = [st |-> st, prev |-> voting.st, call |-> c]
    /\ UNCHANGED <<file, chain, txCount, runs, pc, env, loc, out, fv, fr, cfile,
                   artifactFiles, token>>

\* a require of call c fails: the transaction reverts
VotingRevert(c) ==
    /\ voting' = [st |-> voting.st, prev |-> voting.st, call |-> [c EXCEPT !.reverted = TRUE]]
    /\ UNCHANGED <<file, chain, txCount, runs, pc, env, loc, out, fv, fr, cfile,
                   artifactFiles, token>>

\* A variant of onlyOwner that lets every sender pass
onlyOwnerAnyone(sender) == TRUE

\* modifier onlyOwner
onlyOwner(sender) == sender = voting.st.owner

\* modifier onlyRegistered
onlyRegistered(sender) == voting.st.voters[sender].isRegistered

\* addCandidate(name); the model stops at MaxCandidates candidates
addCandidate(sender, name) ==
    LET c == VotingCall("addCandidate", sender, name, "", 0)
        candidateCount == voting.st.candidateCount + 1
    IN  IF ~onlyOwner(sender) THEN VotingRevert(c)
        ELSE /\ candidateCount <= MaxCandidates
             /\ VotingCommit(c, [voting.st EXCEPT
                    !.candidateCount = candidateCount,
                    !.candidates[candidateCount] =
                        [id |-> candidateCount, name |-> name, voteCount |-> 0]])

\* registerVoter(voter)
registerVoter(sender, voter) ==
    LET c == VotingCall("registerVoter", sender, "", voter, 0)
    IN  IF ~onlyOwner(sender) THEN VotingRevert(c)
        ELSE VotingCommit(c, [voting.st EXCEPT !.voters[voter].isRegistered = TRUE])

\* startVoting()
startVoting(sender) ==
    LET c == VotingCall("startVoting", sender, "", "", 0)
    IN  IF ~onlyOwner(sender) THEN VotingRevert(c)
        ELSE VotingCommit(c, [voting.st EXCEPT !.votingActive = TRUE])

\* endVoting()
endVoting(sender) ==
    LET c == VotingCall("endVoting", sender, "", "", 0)
    IN  IF ~onlyOwner(sender) THEN VotingRevert(c)
        ELSE VotingCommit(c, [voting.st EXCEPT !.votingActive = FALSE])

\* A variant of vote without the second require
voteAgain(sender, candidateId) ==
    LET c == VotingCall("vote", sender, "", "", candidateId)
    IN  IF ~onlyRegistered(sender) THEN VotingRevert(c)
        ELSE IF ~voting.st.votingActive THEN VotingRevert(c)
        ELSE IF ~(candidateId > 0 /\ candidateId <= voting.st.candidateCount)
        THEN VotingRevert(c)
        ELSE VotingCommit(c, [voting.st EXCEPT
                !.voters[sender].hasVoted = TRUE,
                !.voters[sender].votedFor = candidateId,
                !.candidates[candidateId].voteCount = @ + 1])

\* vote(candidateId)
vote(sender, candidateId) ==
    LET c == VotingCall("vote", sender, "", "", candidateId)
    IN  IF ~onlyRegistered(sender) THEN VotingRevert(c)
        ELSE IF ~voting.st.votingActive THEN VotingRevert(c)
        ELSE IF voting.st.voters[sender].hasVoted THEN VotingRevert(c)
        ELSE IF ~(candidateId > 0 /\ candidateId <= voting.st.candidateCount)
        THEN VotingRevert(c)
        ELSE VotingCommit(c, [voting.st EXCEPT
                !.voters[sender].hasVoted = TRUE,
                !.voters[sender].votedFor = candidateId,
                !.candidates[candidateId].voteCount = @ + 1])

\* getCandidate(candidateId), a view
getCandidate(sender, candidateId) ==
    LET c == VotingCall("getCandidate", sender, "", "", candidateId)
    IN  IF ~(candidateId > 0 /\ candidateId <= voting.st.candidateCount)
        THEN VotingRevert(c)
        ELSE VotingCommit(c, voting.st)

-----------------------------------------------------------------------------
(* The SimpleERC20 contract *)

ZeroAddress == "0x0"

\* the keys of _balances looked at
Holders == Accounts \cup {ZeroAddress}

TokenCall(fn, sender, to, amount) ==
    [fn |-> fn, sender |-> sender, to |-> to, amount |-> amount, reverted |-> FALSE]

\* no SimpleERC20 contract has been deployed
NoToken == [st |-> << >>, prev |-> << >>, call |-> TokenCall("none", "", "", 0)]

\* the storage after constructor(name_, symbol_), sent by sender. The supply
\* of 1000000 * 10**18 is counted in units of which it holds Supply.
TokenConstructor(sender, name_, symbol_) ==
    [_name |-> name_,
     _symbol |-> symbol_,
     _totalSupply |-> Supply,
     _balances |-> [a \in Holders |-> IF a = sender THEN Supply ELSE 0]]

\* A variant of the two assignments of transfer that reads both balances
\* before it writes either
MoveFromSnapshot(_balances, sender, to, amount) ==
    [a \in DOMAIN _balances |->
        IF a = to THEN _balances[to] + amount
        ELSE IF a = sender THEN _balances[sender] - amount
        ELSE _balances[a]]

\* _balances[msg.sender] -= amount; _balances[to] += amount; one after the
\* other. No sum of balances reaches 2**256, so the checked addition never
\* reverts.
Move(_balances, sender, to, amount) ==
    LET debited == [_balances EXCEPT ![sender] = @ - amount]
    IN  [debited EXCEPT ![to] = @ + amount]

\* A variant of transfer without the balance check: only the subtraction
\* that would go below zero reverts, and a transfer to address(0) passes
transferUnchecked(sender, to, amount) ==
    LET c == TokenCall("transfer", sender, to, amount)
    IN  /\ token' = IF token.st._balances[sender] < amount
                    THEN [st |-> token.st, prev |-> token.st,
                          call |-> [c EXCEPT !.reverted = TRUE]]
                    ELSE [st |-> [token.st EXCEPT
                                    !._balances = Move(@, sender, to, amount)],
                          prev |-> token.st, call |-> c]
        /\ UNCHANGED <<file, chain, txCount, runs, pc, env, loc, out, fv, fr, cfile,
                       artifactFiles, voting>>

\* transfer(to, amount)
transfer(sender, to, amount) ==
    LET c == TokenCall("transfer", sender, to, amount)
        ok == to # ZeroAddress /\ token.st._balances[sender] >= amount
    IN  /\ token' = IF ~ok
                    THEN [st |-> token.st, prev |-> token.st,
                          call |-> [c EXCEPT !.reverted = TRUE]]
                    ELSE [st |-> [token.st EXCEPT
                                    !._balances = Move(@, sender, to, amount)],
                          prev |-> token.st, call |-> c]
        /\ UNCHANGED <<file, chain, txCount, runs, pc, env, loc, out, fv, fr, cfile,
                       artifactFiles, voting>>

\* balanceOf(account), a view
balanceOf(sender, account) ==
    /\ token' = [st |-> token.st, prev |-> token.st,
                 call |-> TokenCall("balanceOf", sender, account, token.st._balances[account])]
    /\ UNCHANGED <<file, chain, txCount, runs, pc, env, loc, out, fv, fr, cfile,
                   artifactFiles, voting>>

(* Specification: calls to one Voting contract *)

VotingInit ==
    /\ file = NoFile
    /\ chain = << >>
    /\ txCount = 0
    /\ runs = 0
    /\ pc = [p \in Procs |-> "idle"]
    /\ env = [p \in Procs |-> NoEnv]
    /\ loc = [p \in Procs |-> NoLocals]
    /\ out = [p \in Procs |-> NoOutput]
    /\ fv = JSNull
    /\ fr = [done |-> FALSE, v |-> JSNull]
    /\ cfile = NoFile
    /\ artifactFiles = CompiledArtifacts
    /\ \E sender \in Accounts :
          voting = [st |-> VotingConstructor(sender), prev |-> VotingConstructor(sender),
                    call |-> VotingCall("constructor", sender, "", "", 0)]
    /\ token = NoToken

VotingNext ==
    \/ \E sender \in Accounts, name \in CandidateNames : addCandidate(sender, name)
    \/ \E sender \in Accounts, voter \in Accounts : registerVoter(sender, voter)
    \/ \E sender \in Accounts : startVoting(sender)
    \/ \E sender \in Accounts : endVoting(sender)
    \/ \E sender \in Accounts, candidateId \in 0..(MaxCandidates + 1) : vote(sender, candidateId)
    \/ \E sender \in Accounts, candidateId \in 0..(MaxCandidates + 1) :
          getCandidate(sender, candidateId)

VotingSpec == VotingInit /\ [][VotingNext]_vars

(* Specification: calls to one SimpleERC20 contract *)

TokenInit ==
    /\ file = NoFile
    /\ chain = << >>
    /\ txCount = 0
    /\ runs = 0
    /\ pc = [p \in Procs |-> "idle"]
    /\ env = [p \in Procs |-> NoEnv]
    /\ loc = [p \in Procs |-> NoLocals]
    /\ out = [p \in Procs |-> NoOutput]
    /\ fv = JSNull
    /\ fr = [done |-> FALSE, v |-> JSNull]
    /\ cfile = NoFile
    /\ artifactFiles = CompiledArtifacts
    /\ voting = NoVoting
    /\ \E sender \in Accounts :
          token = [st |-> TokenConstructor(sender, "Token", "TKN"),
                   prev |-> TokenConstructor(sender, "Token", "TKN"),
                   call |-> TokenCall("constructor", sender, "", 0)]

TokenNext ==
    \/ \E sender \in Accounts, to \in Holders, amount \in 0..(Supply + 1) :
          transfer(sender, to, amount)
    \/ \E sender \in Accounts, account \in Holders : balanceOf(sender, account)

TokenSpec == TokenInit /\ [][TokenNext]_vars

-----------------------------------------------------------------------------
(* Specification: script invocations one after the other *)

Init ==
    /\ file = NoFile
    /\ chain = << >>
    /\ txCount = 0
    /\ runs = 0
    /\ pc = [p \in Procs |-> "idle"]
    /\ env = [p \in Procs |-> NoEnv]
    /\ loc = [p \in Procs |-> NoLocals]
    /\ out = [p \in Procs |-> NoOutput]
    /\ fv = JSNull
    /\ fr = [done |-> FALSE, v |-> JSNull]
    /\ cfile = NoFile
    /\ artifactFiles = CompiledArtifacts
    /\ voting = NoVoting
    /\ token = NoToken

Next ==
    \/ DeployStart("p", DeployEnvs)
    \/ DeployCompile("p")
    \/ DeployFactory("p")
    \/ DeployArgs("p")
    \/ DeploySubmit("p")
    \/ DeployWait("p")
    \/ ImportABIStart("p", ImportABIEnvs)
    \/ ImportCodeStart("p", ImportCodeEnvs)
    \/ ImportCodeCompile("p")
    \/ Probe("p")
    \/ SaveRead("p")
    \/ SaveWrite("p")
    \/ PrintSummary("p")
    \/ InteractStart("p", InteractEnvs)
    \/ InteractGetContract("p")
    \/ InteractResolve("p")
    \/ InteractCall("p")
    \/ InteractSend("p")
    \/ InteractWait("p")
    \/ Reap("p")

Spec == Init /\ [][Next]_vars

-----------------------------------------------------------------------------
(* Specification: two writers of the ledger running at the same time *)

ConcDeployEnvs ==
    {DeployEnv("SimpleTextStorage", SourcePath("SimpleTextStorage"), "", "localhost")}

ConcImportABIEnvs ==
    {ImportABIEnv(a, "Ext", "abis/TextStorage.json", "sepolia") : a \in Address}

ConcImportCodeEnvs ==
    {ImportCodeEnv(a, "Add", SourcePath("Add"), "sepolia") : a \in LowerAddress}

ConcNext ==
    \E p \in Procs :
        \/ DeployStart(p, ConcDeployEnvs)
        \/ DeployCompile(p)
        \/ DeployFactory(p)
        \/ DeployArgs(p)
        \/ DeploySubmit(p)
        \/ DeployWait(p)
        \/ ImportABIStart(p, ConcImportABIEnvs)
        \/ ImportCodeStart(p, ConcImportCodeEnvs)
        \/ ImportCodeCompile(p)
        \/ Probe(p)
        \/ SaveRead(p)
        \/ SaveWrite(p)
        \/ PrintSummary(p)

ConcSpec == Init /\ [][ConcNext]_vars

-----------------------------------------------------------------------------
(* Specification: formatReturnValue applied to one value *)

Scalars == {JSBigInt(42), JSBigInt(-7), JSString(<<"h", "i">>), JSBool(TRUE), JSNull}

\* arrays of at most MaxLen elements of S
Arrays(S) == {JSArray(s) : s \in UNION {[1..n -> S] : n \in 0..MaxLen}}

\* tuple outputs of one and of two components of S, named as the ABI of
\* the function names them
Results(S) ==
    {JSResult(<<x>>, <<"amount">>) : x \in S}
    \cup {JSResult(<<x, y>>, <<"amount", "owner">>) : x \in S, y \in {JSString(<<"h", "i">>)}}

\* plain objects over S: the empty object, an object with one named field,
\* and an object that holds a value under an index and under a name
Objects(S) ==
    {JSObject(<< >>)}
    \cup {JSObject([k \in {"amount"} |-> x]) : x \in S}
    \cup {JSObject([k \in {"0", "amount"} |-> x]) : x \in S}

Nested(S) == S \cup Arrays(S) \cup Objects(S) \cup Results(S)

Values == Nested(Nested(Scalars))

FmtInit ==
    /\ file = NoFile
    /\ chain = << >>
    /\ txCount = 0
    /\ runs = 0
    /\ pc = [p \in Procs |-> "idle"]
    /\ env = [p \in Procs |-> NoEnv]
    /\ loc = [p \in Procs |-> NoLocals]
    /\ out = [p \in Procs |-> NoOutput]
    /\ fv \in Values
    /\ fr = [done |-> FALSE, v |-> JSNull]
    /\ cfile = NoFile
    /\ artifactFiles = CompiledArtifacts
    /\ voting = NoVoting
    /\ token = NoToken

Format ==
    /\ ~fr.done
    /\ fr' = [done |-> TRUE, v |-> formatReturnValue(fv)]
    /\ UNCHANGED <<file, chain, txCount, runs, pc, env, loc, out, fv, cfile, artifactFiles, voting, token>>

FmtNext == Format

FmtSpec == FmtInit /\ [][FmtNext]_vars

-----------------------------------------------------------------------------
(* Specification: the positional scripts, one invocation after the other *)

\* the contract deploy.ts has deployed before: SimpleTextStorage at the
\* first address, recorded in deployments.json
DeployedAddress == ChecksumAddress(CHOOSE k \in LowerAddress : TRUE)

PositionalInit ==
    /\ file = writeFileSync(NoFile,
                 SetEntry(EmptyDeployments, DeployedAddress,
                          DeployRecord("localhost", "SimpleTextStorage",
                                       SourcePath("SimpleTextStorage"), DeployedAddress, 0,
                                       SimpleTextStorageABI, TxHash(1))))
    /\ chain = [k \in {toLowerCase(DeployedAddress)} |->
                   [contract |-> "SimpleTextStorage",
                    state |-> InitialState("SimpleTextStorage", << >>)]]
    /\ txCount = 1
    /\ runs = 0
    /\ pc = [p \in Procs |-> "idle"]
    /\ env = [p \in Procs |-> NoEnv]
    /\ loc = [p \in Procs |-> NoLocals]
    /\ out = [p \in Procs |-> NoOutput]
    /\ fv = JSNull
    /\ fr = [done |-> FALSE, v |-> JSNull]
    /\ cfile = NoFile
    /\ artifactFiles = CompiledArtifacts
    /\ voting = NoVoting
    /\ token = NoToken

PositionalNext ==
    \/ AddNamed("p", AddNamedEnvs)
    \/ AddExternalStart("p", AddExternalEnvs)
    \/ AddExternalGetCode("p")
    \/ AddExternalProbe("p")
    \/ PositionalInteractStart("p", PositionalInteractEnvs)
    \/ PositionalInteractGetContract("p")
    \/ PositionalInteractCall("p")
    \/ PositionalInteractSigners("p")
    \/ PositionalInteractSend("p")
    \/ PositionalInteractWait("p")
    \/ Reap("p")

PositionalSpec == PositionalInit /\ [][PositionalNext]_vars

-----------------------------------------------------------------------------
(* Specification: interact invocations of both kinds, one after the other *)

\* Both ledgers know the contract deployed before: deployments.json through
\* deploy.ts, contracts/deployments.json through the add-external script
\* that takes a name, which has also written the artifact
InteractInit ==
    /\ file = writeFileSync(NoFile,
                 SetEntry(EmptyDeployments, DeployedAddress,
                          DeployRecord("localhost", "SimpleTextStorage",
                                       SourcePath("SimpleTextStorage"), DeployedAddress, 0,
                                       SimpleTextStorageABI, TxHash(1))))
    /\ chain = [k \in {toLowerCase(DeployedAddress)} |->
                   [contract |-> "SimpleTextStorage",
                    state |-> InitialState("SimpleTextStorage", << >>)]]
    /\ txCount = 1
    /\ runs = 0
    /\ pc = [p \in Procs |-> "idle"]
    /\ env = [p \in Procs |-> NoEnv]
    /\ loc = [p \in Procs |-> NoLocals]
    /\ out = [p \in Procs |-> NoOutput]
    /\ fv = JSNull
    /\ fr = [done |-> FALSE, v |-> JSNull]
    /\ cfile = writeFileSync(NoFile,
                  AddEntry(EmptyDeployments, toLowerCase(DeployedAddress),
                           PositionalRecord("Ext")))
    /\ artifactFiles = WriteArtifact(CompiledArtifacts, "Ext", JSArray(SimpleTextStorageABI))
    /\ voting = NoVoting
    /\ token = NoToken

InteractNext ==
    \/ InteractStart("p", InteractEnvs)
    \/ InteractGetContract("p")
    \/ InteractResolve("p")
    \/ InteractCall("p")
    \/ InteractSend("p")
    \/ InteractWait("p")
    \/ PositionalInteractStart("p", PositionalInteractEnvs)
    \/ PositionalInteractGetContract("p")
    \/ PositionalInteractCall("p")
    \/ PositionalInteractSigners("p")
    \/ PositionalInteractSend("p")
    \/ PositionalInteractWait("p")
    \/ Reap("p")

InteractSpec == InteractInit /\ [][InteractNext]_vars

-----------------------------------------------------------------------------
(* The ledger store: properties *)

\* the ledger as a reader finds it now
Ledger == readDeployments(file)

\* the key saveDeployment files a record under
KeyOf(p) == toLowerCase(loc[p].saveTo)

\* C1: once saveDeployment(A, R) has returned, readDeployments() holds an
\* entry under lowercase(A), that entry is exactly R, and every key the write
\* added is a lower-case one (no key in another case was created).
C1_SaveThenRead ==
    \A p \in Procs :
        loc[p].wrote =>
            /\ KeyOf(p) \in DOMAIN Ledger
            /\ Ledger[KeyOf(p)] = loc[p].info
            /\ \A k \in DOMAIN Ledger \ DOMAIN readDeployments(loc[p].before) :
                    k = toLowerCase(k)

\* C1 witness: a record was saved under an address that is not lower-case
C1_Witness ==
    \E p \in Procs : loc[p].wrote /\ loc[p].saveTo # toLowerCase(loc[p].saveTo)

\* C2: a write to an address that already has a record leaves exactly the
\* new record there: the entry has the fields of the new record and no
\* others, so no field of the earlier record survives.
C2_Overwrite ==
    \A p \in Procs :
        (loc[p].wrote /\ KeyOf(p) \in DOMAIN loc[p].deployments) =>
            /\ DOMAIN Ledger[KeyOf(p)] = DOMAIN loc[p].info
            /\ \A f \in DOMAIN loc[p].deployments[KeyOf(p)] \ DOMAIN loc[p].info :
                    f \notin DOMAIN Ledger[KeyOf(p)]
            /\ \A f \in DOMAIN loc[p].info : Ledger[KeyOf(p)][f] = loc[p].info[f]

\* C2 witness: an import has overwritten the record of a deployment, which
\* had a transaction hash and a source path the import record has not
C2_Witness ==
    \E p \in Procs :
        /\ loc[p].wrote
        /\ KeyOf(p) \in DOMAIN loc[p].deployments
        /\ "transactionHash" \in DOMAIN loc[p].deployments[KeyOf(p)]
        /\ "transactionHash" \notin DOMAIN loc[p].info

\* C3: of two invocations that write records for different addresses, let p
\* be the one that wrote last. If p read the ledger before q wrote (both had
\* read before either wrote), the ledger is p's view of it: what p read plus
\* p's record, and q's record is lost unless p had read one under that key.
\* If p read only after q had written, both records are there.
C3_LastWriterWins ==
    \A p, q \in Procs :
        (/\ p # q /\ loc[p].wrote /\ loc[q].wrote
         /\ KeyOf(p) # KeyOf(q)
         /\ loc[p].wroteAt = file.writes) =>
            /\ loc[p].readAt < loc[q].wroteAt =>
                   /\ DOMAIN Ledger = DOMAIN loc[p].deployments \cup {KeyOf(p)}
                   /\ Ledger[KeyOf(p)] = loc[p].info
                   /\ \A k \in DOMAIN loc[p].deployments \ {KeyOf(p)} :
                          Ledger[k] = loc[p].deployments[k]
                   /\ KeyOf(q) \notin DOMAIN loc[p].deployments
                          => KeyOf(q) \notin DOMAIN Ledger
            /\ loc[p].readAt >= loc[q].wroteAt =>
                   /\ {KeyOf(p), KeyOf(q)} \subseteq DOMAIN Ledger
                   /\ Ledger[KeyOf(p)] = loc[p].info
                   /\ Ledger[KeyOf(q)] = loc[q].info

\* C3 witness: the lost update. Both invocations have written, each had read
\* the ledger before the other wrote, and the record of one is gone
C3_Witness ==
    \E p, q \in Procs :
        /\ p # q /\ loc[p].wrote /\ loc[q].wrote
        /\ KeyOf(p) # KeyOf(q)
        /\ loc[p].readAt < loc[q].wroteAt /\ loc[q].readAt < loc[p].wroteAt
        /\ KeyOf(q) \notin DOMAIN Ledger

\* C4: a write changes no record but the one under the key it writes, and
\* the key set of the ledger never shrinks.
C4_Frame ==
    [][/\ DOMAIN readDeployments(file) \subseteq DOMAIN readDeployments(file')
       /\ \A k \in DOMAIN readDeployments(file) :
              readDeployments(file')[k] # readDeployments(file)[k] =>
                  \E p \in Procs : pc[p] = "save_write" /\ k = KeyOf(p)]_vars

\* C4 witness: a record was added to a ledger that held another one, which
\* is still there as it was
C4_Witness ==
    \E p \in Procs :
        /\ loc[p].wrote
        /\ \E k \in DOMAIN loc[p].deployments :
              k # KeyOf(p) /\ k \in DOMAIN Ledger /\ Ledger[k] = loc[p].deployments[k]

-----------------------------------------------------------------------------
(* Deploy: properties *)

\* the number of elements the JSON text of argument string s holds; -1 when
\* s is no JSON text or is JSON for something that is no array
SuppliedCount(s) ==
    IF ArgText(s).ok /\ ArgText(s).json.t = "array" THEN Len(ArgText(s).json.v) ELSE -1

\* the number of constructor parameters of contract c
ParameterCount(c) == Len(ConstructorInputs(CompiledABI(c)))

\* invocation p deploys a contract that exists, with CONSTRUCTOR_ARGS an
\* array whose length is not the constructor's parameter count
WrongArgCount(p) ==
    /\ env[p].script = "deploy"
    /\ env[p].name \in Contracts /\ env[p].path = SourcePath(env[p].name)
    /\ env[p].network # ""
    /\ SuppliedCount(env[p].args) >= 0
    /\ SuppliedCount(env[p].args) # ParameterCount(env[p].name)

\* invocation p has not come to the deploy call, and has left the ledger alone
NothingDeployed(p) ==
    /\ pc[p] \in {"d_compile", "d_factory", "d_args", "done"}
    /\ loc[p].txs = 0
    /\ "eth_sendTransaction" \notin {loc[p].reqs[i] : i \in DOMAIN loc[p].reqs}
    /\ ~loc[p].wrote
    /\ file = loc[p].before
    /\ pc[p] = "done" => out[p].exit = 1

\* C5 as stated: for every parameter count N, N = 0 included, a deploy
\* whose CONSTRUCTOR_ARGS is an array of another length fails before a
\* deployment transaction is submitted and leaves the ledger unchanged.
C5_AsStated ==
    \A p \in Procs : WrongArgCount(p) => NothingDeployed(p)

\* C5: for every parameter count N > 0, a deploy whose CONSTRUCTOR_ARGS is an
\* array of another length fails before a deployment transaction is
\* submitted, exits 1 and leaves the ledger unchanged. For N = 0 the
\* arguments given are ignored: the argument check rejects nothing and the
\* contract is deployed with no arguments.
C5_WrongCountRejected ==
    \A p \in Procs :
        WrongArgCount(p) =>
            IF ParameterCount(env[p].name) > 0
            THEN /\ NothingDeployed(p)
                 /\ pc[p] = "done" =>
                        loc[p].err.kind \in {"CompileFailed", "ProviderError", "BadConstructorArgs"}
            ELSE /\ loc[p].err.kind # "BadConstructorArgs"
                 /\ loc[p].args = << >>

\* C5 witness: a deploy of Add (one constructor parameter) with two
\* arguments was rejected by the argument check
C5_Witness ==
    \E p \in Procs :
        /\ WrongArgCount(p)
        /\ ParameterCount(env[p].name) > 0
        /\ pc[p] = "done"
        /\ loc[p].err.kind = "BadConstructorArgs"

\* the object a finished invocation printed last
Printed(p) == out[p].json[Len(out[p].json)].json

\* C6: a successful deploy of a contract without constructor parameters on
\* an empty ledger leaves exactly one entry, of deploymentType "local" and
\* with a non-empty transactionHash. An interact call of a getter that
\* follows (no transaction but the deployment has been sent), given the
\* address in any letter case, finds the record and performs the read call;
\* unless the provider fails, it exits 0 and prints success = true with the
\* initial state of the contract.
C6_DeployThenRead ==
    \A p \in Procs :
        /\ (/\ env[p].script = "deploy" /\ loc[p].wrote
            /\ ParameterCount(env[p].name) = 0
            /\ loc[p].deployments = EmptyDeployments) =>
               /\ DOMAIN Ledger = {KeyOf(p)}
               /\ Ledger[KeyOf(p)].deploymentType = "local"
               /\ Ledger[KeyOf(p)].transactionHash # Null
               /\ Len(Ledger[KeyOf(p)].transactionHash) > 0
        /\ (/\ env[p].script = "interact" /\ pc[p] = "done"
            /\ env[p].fn = "getText" /\ env[p].args \in {"", "[]"}
            /\ env[p].network # ""
            /\ txCount = 1
            /\ toLowerCase(env[p].address) \in DOMAIN chain
            /\ chain[toLowerCase(env[p].address)].contract = "SimpleTextStorage"
            /\ toLowerCase(env[p].address) \in DOMAIN Ledger
            /\ Ledger[toLowerCase(env[p].address)].deploymentType = "local") =>
               /\ loc[p].err.kind \in {"none", "ProviderError"}
               /\ loc[p].reqs = <<"eth_accounts", "eth_call">>
               /\ loc[p].err.kind = "none" =>
                      /\ out[p].exit = 0
                      /\ Printed(p).success = TRUE
                      /\ Printed(p).contractAddress = toLowerCase(env[p].address)
                      /\ Printed(p).result = JSString(<< >>)

\* C6 witness: the getter was called with the address in upper case and the
\* success result was printed
C6_Witness ==
    \E p \in Procs :
        /\ env[p].script = "interact" /\ pc[p] = "done"
        /\ env[p].fn = "getText"
        /\ txCount = 1
        /\ env[p].address # toLowerCase(env[p].address)
        /\ toLowerCase(env[p].address) \in DOMAIN Ledger
        /\ Ledger[toLowerCase(env[p].address)].deploymentType = "local"
        /\ out[p].exit = 0
        /\ Printed(p).success = TRUE

-----------------------------------------------------------------------------
(* Import by ABI: properties *)

\* the content of an ABI file is JSON, but no array of objects that each
\* have a string "type"
Malformed(text) ==
    /\ text.ok
    /\ \/ text.json.t # "array"
       \/ \E i \in DOMAIN text.json.v :
             text.json.v[i].k = "null" \/ text.json.v[i].typeofType # "string"

\* C7: an import by ABI whose file holds JSON that is no array, or an array
\* with an element (null included) that has no string "type", fails and
\* exits 1 before the accessibility probe and before any write; the ledger
\* is unchanged.
C7_BadAbiRejected ==
    \A p \in Procs :
        (/\ env[p].script = "importABI"
         /\ existsSync(env[p].abiFile)
         /\ Malformed(readFileSync(env[p].abiFile))) =>
            /\ pc[p] = "done"
            /\ out[p].exit = 1
            /\ loc[p].probe = "none"
            /\ loc[p].reqs = << >>
            /\ ~loc[p].wrote
            /\ file = loc[p].before

\* C7 witness: an import whose ABI file holds a null element was rejected
\* by the ABI check
C7_Witness ==
    \E p \in Procs :
        /\ env[p].script = "importABI"
        /\ env[p].abiFile \in {"abis/null.json", "abis/mixed.json"}
        /\ pc[p] = "done"
        /\ loc[p].err.kind = "AbiParseError"

-----------------------------------------------------------------------------
(* Interact: properties *)

\* invocation p is an interact call that has the variables it needs
InteractCallOf(p) ==
    /\ env[p].script = "interact"
    /\ env[p].address # NoAddress /\ env[p].fn # "" /\ env[p].network # ""

\* the ledger as it was when invocation p started
LedgerBefore(p) == readDeployments(loc[p].before)

\* the functions called fn that interface abi declares
Declared(abi, fn) == {i \in DOMAIN abi : abi[i].type = "function" /\ abi[i].name = fn}

\* the requests invocation p has made of the provider
Requests(p) == {loc[p].reqs[i] : i \in DOMAIN loc[p].reqs}

\* invocation p has made no read call and has sent no transaction
NoCallNoTransaction(p) ==
    /\ pc[p] \notin {"i_call", "i_send", "i_wait"}
    /\ Requests(p) \cap {"eth_call", "eth_sendTransaction"} = {}
    /\ loc[p].txs = 0

\* C8: an interact call for an address whose lower-cased form has no ledger
\* record, or for a function the record's ABI does not declare, makes no
\* read call and sends no transaction; it exits 1 and prints a result with
\* success = false and a not-found error that names the address, or the
\* function.
C8_NotFound ==
    \A p \in Procs :
        InteractCallOf(p) =>
            LET key == toLowerCase(env[p].address)
            IN  /\ key \notin DOMAIN LedgerBefore(p) =>
                       /\ NoCallNoTransaction(p)
                       /\ pc[p] = "done" /\ out[p].exit = 1
                       /\ Printed(p).success = FALSE
                       /\ Printed(p).error.kind = "ContractNotFound"
                       /\ Printed(p).error.address = key
                /\ (/\ key \in DOMAIN LedgerBefore(p)
                    /\ Declared(LedgerBefore(p)[key].abi, env[p].fn) = {}) =>
                       /\ NoCallNoTransaction(p)
                       /\ pc[p] = "done" =>
                              /\ out[p].exit = 1
                              /\ Printed(p).success = FALSE
                              /\ Printed(p).error.kind = "FunctionNotFound"
                              /\ Printed(p).error.fn = env[p].fn

\* C8 witness: a call of a function the stored ABI does not declare has
\* failed, after the contract instance was made
C8_Witness ==
    \E p \in Procs :
        /\ InteractCallOf(p) /\ pc[p] = "done"
        /\ toLowerCase(env[p].address) \in DOMAIN LedgerBefore(p)
        /\ loc[p].err.kind = "FunctionNotFound"
        /\ loc[p].reqs = <<"eth_accounts">>

\* invocation p calls a function the record declares, with CONTRACT_ARGS
\* that is absent while the function has parameters, or is no JSON array, or
\* is an array of a length other than the number of parameters
BadArgs(p) ==
    /\ InteractCallOf(p)
    /\ toLowerCase(env[p].address) \in DOMAIN LedgerBefore(p)
    /\ LET abi == LedgerBefore(p)[toLowerCase(env[p].address)].abi
           found == Declared(abi, env[p].fn)
       IN  /\ found # {}
           /\ LET n == Len(abi[CHOOSE i \in found : TRUE].inputs)
              IN  IF env[p].args = "" THEN n > 0 ELSE SuppliedCount(env[p].args) # n

\* C9 as stated: such a call fails before any network interaction: it has
\* made no provider request of any kind when it fails.
C9_AsStated ==
    \A p \in Procs : (BadArgs(p) /\ pc[p] = "done") => loc[p].reqs = << >>

\* C9: such a call fails before it makes a read call or sends a
\* transaction; it exits 1 with success = false. The one provider request
\* made before the failure is the account lookup (eth_accounts) of
\* getContractAt, which comes before the arguments are looked at.
C9_BadArgsRejected ==
    \A p \in Procs :
        BadArgs(p) =>
            /\ NoCallNoTransaction(p)
            /\ loc[p].reqs \in {<< >>, <<"eth_accounts">>}
            /\ pc[p] = "done" =>
                   /\ loc[p].reqs = <<"eth_accounts">>
                   /\ out[p].exit = 1
                   /\ Printed(p).success = FALSE
                   /\ Printed(p).error.kind = "BadFunctionArgs"

\* C9 witness: a call of a function without parameters, given one argument,
\* was rejected
C9_Witness ==
    \E p \in Procs :
        /\ BadArgs(p) /\ pc[p] = "done"
        /\ SuppliedCount(env[p].args) > 0
        /\ loc[p].err.kind = "BadFunctionArgs"

-----------------------------------------------------------------------------
(* formatReturnValue: properties *)

\* the number a string of decimal digits denotes
RECURSIVE DecimalValue(_)
DecimalValue(s) ==
    IF Len(s) = 0 THEN 0
    ELSE 10 * DecimalValue(SubSeq(s, 1, Len(s) - 1))
         + (CHOOSE d \in 0..9 : Digit(d) = s[Len(s)])

\* s is the decimal string of integer n
IsDecimalOf(s, n) ==
    IF n < 0
    THEN Len(s) > 1 /\ s[1] = "-" /\ s[2] # "0" /\ DecimalValue(Tail(s)) = -n
    ELSE Len(s) > 0 /\ (Len(s) > 1 => s[1] # "0") /\ DecimalValue(s) = n

\* value w is value v with each integer in it, at any depth, replaced by its
\* decimal string and everything else as it was (of an object, the fields
\* with a name)
RECURSIVE Normalized(_, _)
Normalized(v, w) ==
    CASE v.t = "bigint" -> w.t = "string" /\ IsDecimalOf(w.v, v.v)
      [] v.t \in {"array", "result"} ->
                           /\ w.t = "array" /\ Len(w.v) = Len(v.v)
                           /\ \A i \in DOMAIN v.v : Normalized(v.v[i], w.v[i])
      [] v.t = "object" -> /\ w.t = "object"
                           /\ DOMAIN w.v \subseteq DOMAIN v.v
                           /\ \A k \in DOMAIN v.v : KeyIsNaN(k) => k \in DOMAIN w.v
                           /\ \A k \in DOMAIN w.v : Normalized(v.v[k], w.v[k])
      [] OTHER          -> w = v

\* value v holds an integer somewhere
RECURSIVE HasBigInt(_)
HasBigInt(v) ==
    CASE v.t = "bigint" -> TRUE
      [] v.t \in {"array", "object", "result"} -> \E i \in DOMAIN v.v : HasBigInt(v.v[i])
      [] OTHER -> FALSE

\* C10: formatReturnValue returns its argument with every integer, at any
\* depth of arrays and objects, turned into its decimal string, so the
\* value returned holds no integer; strings, booleans and null come back
\* unchanged.
C10_Normalizes ==
    fr.done =>
        /\ Normalized(fv, fr.v)
        /\ ~HasBigInt(fr.v)
        /\ fv.t \in {"string", "boolean", "null"} => fr.v = fv

\* C10 witness: a value with an integer inside an array or object that is
\* itself inside an array or object was normalized
C10_Witness ==
    /\ fr.done
    /\ fv.t \in {"array", "object"}
    /\ \E i \in DOMAIN fv.v :
          /\ fv.v[i].t \in {"array", "object"}
          /\ HasBigInt(fv.v[i])

\* C11 as stated: for a tuple output, which is array-indexed and
\* field-named, formatReturnValue yields the named view only: an object whose
\* keys are the field names, with no index keys, and no positional array.
C11_NamedViewOnly ==
    (fr.done /\ fv.t = "result") =>
        /\ fr.v.t = "object"
        /\ DOMAIN fr.v.v = {fv.names[i] : i \in DOMAIN fv.names}

-----------------------------------------------------------------------------
(* Output and exit code: properties *)

\* the number of JSON objects invocation p has printed
PrintedCount(p) == Len(out[p].json)

\* C12 as stated: every invocation of every script, whether it succeeds or
\* fails at any step, has printed exactly one JSON object when it ends.
C12_AsStated ==
    \A p \in Procs : pc[p] = "done" => PrintedCount(p) = 1

\* C12: no invocation prints two JSON objects. An interact invocation has
\* printed exactly one when it ends, on success and on failure; a deploy or
\* import invocation has printed exactly one when it ends with exit code 0
\* and none when it fails (the error goes to stderr as text).
C12_OneSummary ==
    \A p \in Procs :
        /\ PrintedCount(p) <= 1
        /\ pc[p] # "done" => PrintedCount(p) = 0
        /\ pc[p] = "done" =>
               (PrintedCount(p) = 1 <=> (env[p].script = "interact" \/ out[p].exit = 0))

\* C12 witness: an interact invocation failed after it had talked to the
\* provider, and printed one object
C12_Witness ==
    \E p \in Procs :
        /\ pc[p] = "done" /\ env[p].script = "interact"
        /\ out[p].exit = 1 /\ loc[p].reqs # << >>
        /\ PrintedCount(p) = 1

\* a step of invocation p failed and the failure came out of main()
Failed(p) == loc[p].err.kind # "none"

\* the call made by the accessibility probe of invocation p failed
ProbeFailed(p) == loc[p].probe = "threw"

C14_InteractResult ==
    \A p \in Procs :
        (env[p].script = "interact" /\ pc[p] = "done") =>
            /\ PrintedCount(p) = 1
            /\ Printed(p).success = TRUE =>
                   /\ ~Failed(p) /\ out[p].exit = 0
                   /\ loc[p].reqs[Len(loc[p].reqs)] \in {"eth_call", "eth_getTransactionReceipt"}
                   /\ "error" \notin DOMAIN Printed(p)
            /\ Failed(p) =>
                   /\ Printed(p).success = FALSE
                   /\ "error" \in DOMAIN Printed(p)
                   /\ Printed(p).error = loc[p].err
                   /\ out[p].exit = 1
            /\ Printed(p).success = FALSE => Failed(p)

\* C14 witness: the provider failed while the invocation waited for its
\* transaction; success = false was printed
C14_Witness ==
    \E p \in Procs :
        /\ env[p].script = "interact" /\ pc[p] = "done"
        /\ loc[p].err.kind = "ProviderError"
        /\ loc[p].txs = 1
        /\ Printed(p).success = FALSE

-----------------------------------------------------------------------------
(* The import scripts: properties *)

\* invocation p is an import
IsImport(p) == env[p].script \in {"importABI", "importCode"}

\* C15: in both import scripts the outcome of the accessibility probe does
\* not change the result. Whether the probe call succeeded, threw, or was
\* skipped for want of a parameterless view or pure function, the import
\* goes on to saveDeployment, writes the record made of its inputs (which
\* has nothing of the probe in it), and exits 0.
C15_ProbeNotFatal ==
    \A p \in Procs :
        (IsImport(p) /\ loc[p].probe \in {"called", "threw", "skipped"}) =>
            /\ pc[p] \in {"save_read", "save_write", "summary", "done"}
            /\ ~Failed(p)
            /\ pc[p] = "done" => (out[p].exit = 0 /\ loc[p].wrote)
            /\ loc[p].wrote =>
                   Ledger[KeyOf(p)] =
                       [network |-> env[p].netDeployed,
                        contractName |-> env[p].name,
                        contractAddress |-> toLowerCase(env[p].address),
                        timestamp |-> loc[p].info.timestamp,
                        deploymentType |-> IF env[p].script = "importABI"
                                           THEN "external_abi" ELSE "external_code",
                        artifactPath |-> Null,
                        uid |-> Null,
                        abi |-> loc[p].abi]

\* C15 witness: an import by source whose probe call threw has written its
\* record and ended
C15_Witness ==
    \E p \in Procs :
        /\ env[p].script = "importCode" /\ loc[p].probe = "threw"
        /\ pc[p] = "done" /\ loc[p].wrote

\* the inputs of import p fail one of the checks made first: a required
\* variable is missing, the address is no hex string of the right length,
\* or, for an import by source, the file does not exist or has no ".sol"
\* suffix
BadImportInput(p) ==
    /\ IsImport(p)
    /\ \/ env[p].address = NoAddress \/ env[p].name = "" \/ env[p].netDeployed = ""
       \/ env[p].script = "importABI" /\ env[p].abiFile = ""
       \/ env[p].script = "importCode" /\ env[p].sourceFile = ""
       \/ env[p].address \notin Address
       \/ /\ env[p].script = "importCode"
          /\ env[p].sourceFile \notin {"contracts/Add.sol", "contracts/SimpleTextStorage.sol",
                                       "contracts/Ghost.sol"}

-----------------------------------------------------------------------------
(* The positional ledger: properties *)

\* contracts/deployments.json as a reader finds it now
PositionalLedger == IF cfile.exists THEN JSONParse(cfile.raw).v ELSE EmptyDeployments

\* C17: every key of the ledger the positional scripts write is a lower-cased
\* address, and the positional interact script misses an address only when
\* the ledger holds it in no letter case.
C17_KeysLowerCased ==
    /\ \A k \in DOMAIN PositionalLedger : k = toLowerCase(k)
    /\ \A p \in Procs :
          env[p].script = "positionalInteract" /\ loc[p].err.kind = "NoDeploymentEntry"
          => \A k \in DOMAIN PositionalLedger : toLowerCase(k) # toLowerCase(env[p].address)

-----------------------------------------------------------------------------
(* The records of the ledger: properties *)

\* C18: in every ledger state each record's contractAddress is the
\* lower-cased address and is the key the record is stored under.
C18_AddressIsKey ==
    \A k \in DOMAIN Ledger :
        /\ Ledger[k].contractAddress = toLowerCase(Ledger[k].contractAddress)
        /\ Ledger[k].contractAddress = k

-----------------------------------------------------------------------------
(* Deploy: the order of inclusion, ledger write and summary *)

IsDeploy(p) == env[p].script = "deploy"

\* C19: deploy writes its ledger record only after the deployment transaction
\* has been included on chain (the receipt has been fetched and the contract
\* exists at the recorded address); until the write, and for good when
\* compilation, factory resolution, argument parsing, submission or the wait
\* for inclusion fails, the ledger is as the invocation found it; the JSON
\* summary is printed only after the ledger write.
C19_WriteAfterInclusion ==
    \A p \in Procs : IsDeploy(p) =>
        /\ loc[p].wrote =>
              /\ loc[p].txs = 1
              /\ "eth_getTransactionReceipt" \in Requests(p)
              /\ KeyOf(p) \in DOMAIN chain
        /\ ~loc[p].wrote => file = loc[p].before
        /\ Failed(p) => ~loc[p].wrote /\ PrintedCount(p) = 0
        /\ PrintedCount(p) > 0 => loc[p].wrote /\ KeyOf(p) \in DOMAIN Ledger

\* a deploy whose wait for inclusion failed, after a transaction was sent
C19_Witness ==
    \E p \in Procs :
        /\ IsDeploy(p) /\ pc[p] = "done" /\ Failed(p)
        /\ loc[p].txs = 1
        /\ "eth_getTransactionReceipt" \in Requests(p)
        /\ file = loc[p].before

\* the deploymentType each script tags its records with
TypeWritten(p) ==
    CASE env[p].script = "deploy"     -> "local"
      [] env[p].script = "importABI"  -> "external_abi"
      [] env[p].script = "importCode" -> "external_code"
      [] OTHER                        -> "none"

-----------------------------------------------------------------------------
(* Interact: one call or one transaction *)

IsInteract(p) == env[p].script = "interact"

\* how many times invocation p has made request r
CountOf(p, r) == Cardinality({i \in DOMAIN loc[p].reqs : loc[p].reqs[i] = r})

\* invocation p has resolved its function in the interface it looked up
Resolved(p) ==
    /\ IsInteract(p)
    /\ pc[p] \in {"i_call", "i_send", "i_wait"} \/ CountOf(p, "eth_call") > 0 \/ loc[p].txs > 0

\* invocation p has ended and printed a success result
Succeeded(p) == pc[p] = "done" /\ ~Failed(p) /\ PrintedCount(p) = 1 /\ Printed(p).success

\* the environment-driven script: on a view/pure function one read call and
\* no transaction; on a function of another mutability no read call and
\* exactly one transaction, from the first account, the success result
\* printed only after the receipt has been waited for; nothing made twice
OneShotEnvDriven ==
    \A p \in Procs : IsInteract(p) =>
        /\ CountOf(p, "eth_call") <= 1
        /\ CountOf(p, "eth_sendTransaction") <= 1
        /\ CountOf(p, "eth_getTransactionReceipt") <= 1
        /\ loc[p].txs <= 1
        /\ Resolved(p) /\ Fragment_(p).stateMutability \in {"view", "pure"} =>
              /\ loc[p].txs = 0
              /\ CountOf(p, "eth_sendTransaction") = 0
              /\ Succeeded(p) => CountOf(p, "eth_call") = 1 /\ Printed(p).functionType = "view"
        /\ Resolved(p) /\ Fragment_(p).stateMutability \notin {"view", "pure"} =>
              /\ CountOf(p, "eth_call") = 0
              /\ Succeeded(p) =>
                    /\ loc[p].txs = 1
                    /\ CountOf(p, "eth_sendTransaction") = 1
                    /\ loc[p].reqs[Len(loc[p].reqs)] = "eth_getTransactionReceipt"
                    /\ Printed(p).functionType = "transaction"
                    /\ Printed(p).signerAddress = "signer0"
                    /\ Printed(p).transactionHash = loc[p].hash
        /\ ~Resolved(p) => loc[p].txs = 0 /\ CountOf(p, "eth_call") = 0

\* the positional script: at most one read call or one transaction,
\* never both; the call only for a view/pure function, the transaction only
\* for another one, after the accounts were asked for; the process ends
\* with exit code 0 only after the call returned or the receipt was fetched.
OneShotPositional ==
    \A p \in Procs : env[p].script = "positionalInteract" =>
        /\ CountOf(p, "eth_call") + CountOf(p, "eth_sendTransaction") <= 1
        /\ CountOf(p, "eth_getTransactionReceipt") <= 1
        /\ loc[p].txs <= CountOf(p, "eth_sendTransaction")
        /\ CountOf(p, "eth_call") = 1 => Fragment_(p).stateMutability \in {"view", "pure"}
        /\ CountOf(p, "eth_sendTransaction") = 1 =>
              /\ Fragment_(p).stateMutability \notin {"view", "pure"}
              /\ CountOf(p, "eth_accounts") = 2
        /\ pc[p] = "done" /\ out[p].exit = 0 =>
              /\ loc[p].reqs[Len(loc[p].reqs)] \in {"eth_call", "eth_getTransactionReceipt"}
              /\ loc[p].txs = CountOf(p, "eth_getTransactionReceipt")

\* C21: interact on a view/pure function performs one read call and submits
\* no transaction; on a function of any other mutability it submits exactly
\* one transaction from the first account and reports success only after
\* the wait for confirmation; no call or transaction is made a second time
\* within an invocation. This holds for the environment-driven and for the
\* positional script.
C21_OneShot == OneShotEnvDriven /\ OneShotPositional

\* a transaction sent, waited for and reported
C21_Witness ==
    \E p \in Procs :
        /\ IsInteract(p) /\ Succeeded(p)
        /\ loc[p].txs = 1
        /\ Printed(p).functionType = "transaction"

-----------------------------------------------------------------------------
(* Positional interact: the coercion of the arguments *)

\* the value rule by rule: what each token tried is to become
Coerced(arg, value) ==
    CASE arg = "true"   -> value = JSBool(TRUE)
      [] arg = "false"  -> value = JSBool(FALSE)
      [] arg = "0xAb"   -> value = JSString(<<"0", "x", "A", "b">>)
      [] arg = "7"      -> value = JSNumber(7)
      [] arg = "\"hi\"" -> value = JSString(<<"h", "i">>)
      [] arg = "null"   -> value = JSNull
      [] arg = "[7]"    -> value = JSArray(<<JSNumber(7)>>)
      [] arg = "07"     -> value = JSNumber(7)
      [] arg = "hi"     -> value = JSString(<<"h", "i">>)
      [] OTHER          -> FALSE

\* C22: the positional interact script coerces each argument by the first
\* rule that matches: "true"/"false" to a boolean, an address token to the
\* same string, a JSON token to the value it encodes, a numeric-looking token
\* to a number, anything else to the same string. An address token never
\* becomes a number.
C22_Coercion ==
    \A p \in Procs : env[p].script = "positionalInteract" =>
        \A i \in DOMAIN loc[p].args :
            /\ Coerced(env[p].argv[i], loc[p].args[i])
            /\ IsAddressToken(env[p].argv[i]) => loc[p].args[i].t # "number"

\* an invocation that was given an address token and has coerced it
C22_Witness ==
    \E p \in Procs :
        /\ env[p].script = "positionalInteract"
        /\ Len(loc[p].args) = 1
        /\ IsAddressToken(env[p].argv[1])
        /\ loc[p].args[1].t = "string"

-----------------------------------------------------------------------------
(* Interact: the ledgers are only read *)

\* invocation p is an interact invocation of either kind
IsAnyInteract(p) == env[p].script \in {"interact", "positionalInteract"}

\* C23: no interact invocation writes a ledger: from its start to its end,
\* on success and on every failure path, deployments.json and
\* contracts/deployments.json are as the invocation found them.
C23_LedgersUntouched ==
    \A p \in Procs : IsAnyInteract(p) =>
        /\ file = loc[p].before
        /\ cfile = loc[p].cbefore
        /\ ~loc[p].wrote

\* an interact invocation that has sent a transaction, ended by a failure of
\* the wait, with both ledgers as they were
C23_Witness ==
    \E p \in Procs :
        /\ IsAnyInteract(p) /\ pc[p] = "done" /\ Failed(p)
        /\ loc[p].txs = 1
        /\ file = loc[p].before /\ file.exists
        /\ cfile = loc[p].cbefore /\ cfile.exists

-----------------------------------------------------------------------------
(* Interact: what a failed result tells *)

\* the results invocation p has printed
Results_(p) == {out[p].json[i].json : i \in DOMAIN out[p].json}

\* C24: every result with success = false that interact prints has
\* functionType "view" and no transactionHash, gasUsed, blockNumber or
\* signerAddress, also when the invocation had its transaction accepted and
\* failed in the wait for confirmation.
C24_FailedResultIsView ==
    \A p \in Procs : IsInteract(p) =>
        \A r \in Results_(p) : r.success = FALSE =>
            /\ r.functionType = "view"
            /\ DOMAIN r \cap {"transactionHash", "gasUsed", "blockNumber", "signerAddress"} = {}

\* a failed result printed by an invocation whose transaction the node had
\* accepted
C24_Witness ==
    \E p \in Procs :
        /\ IsInteract(p) /\ pc[p] = "done"
        /\ loc[p].txs = 1 /\ loc[p].hash # Null
        /\ \E r \in Results_(p) : r.success = FALSE /\ r.functionType = "view"

-----------------------------------------------------------------------------
(* The Voting contract: properties *)

\* the sum of voteCount over the candidates 1..n of storage st
RECURSIVE VoteSum(_, _)
VoteSum(st, n) == IF n = 0 THEN 0 ELSE st.candidates[n].voteCount + VoteSum(st, n - 1)

\* the addresses with hasVoted = true in storage st
Voted(st) == {a \in Accounts : st.voters[a].hasVoted}

\* C25: after any sequence of calls by any senders each address has voted at
\* most once: the sum of voteCount over all candidates is the number of
\* addresses with hasVoted = true, each candidate's voteCount is the number
\* of addresses that voted for it, and every address that has voted is
\* registered and has votedFor within 1..candidateCount.
C25_OneVoteEach ==
    /\ VoteSum(voting.st, MaxCandidates) = Cardinality(Voted(voting.st))
    /\ \A i \in 1..MaxCandidates :
          voting.st.candidates[i].voteCount =
              Cardinality({a \in Voted(voting.st) : voting.st.voters[a].votedFor = i})
    /\ \A a \in Voted(voting.st) :
          /\ voting.st.voters[a].isRegistered
          /\ voting.st.voters[a].votedFor \in 1..voting.st.candidateCount

\* two addresses have voted, and one of them has just tried again
C25_Witness ==
    /\ Cardinality(Voted(voting.st)) >= 2
    /\ voting.call.fn = "vote" /\ voting.call.reverted
    /\ voting.call.sender \in Voted(voting.st)
    /\ voting.st.votingActive
    /\ voting.call.candidateId \in 1..voting.st.candidateCount

\* the guard of the call c, in the storage st it was made in
VotingGuard(st, c) ==
    CASE c.fn = "vote" ->
            /\ st.voters[c.sender].isRegistered
            /\ st.votingActive
            /\ ~st.voters[c.sender].hasVoted
            /\ c.candidateId \in 1..st.candidateCount
      [] c.fn \in {"addCandidate", "registerVoter", "startVoting", "endVoting"} ->
            c.sender = st.owner
      [] c.fn = "getCandidate" -> c.candidateId \in 1..st.candidateCount
      [] OTHER -> TRUE

\* C26: a call changes the state only when its guard holds: vote needs a
\* registered caller, votingActive, a caller who has not voted and a
\* candidateId within 1..candidateCount; addCandidate, registerVoter,
\* startVoting and endVoting need the owner as caller. A call whose guard
\* fails reverts and leaves the whole state as it was; the owner is the one
\* the constructor set.
C26_GuardedCalls ==
    /\ voting.call.reverted <=> ~VotingGuard(voting.prev, voting.call)
    /\ voting.call.reverted => voting.st = voting.prev
    /\ voting.st # voting.prev => VotingGuard(voting.prev, voting.call)
    /\ voting.st.owner = voting.prev.owner

\* a call of an owner-only function by another account, reverted
C26_Witness ==
    /\ voting.call.fn \in {"addCandidate", "registerVoter", "startVoting", "endVoting"}
    /\ voting.call.sender # voting.prev.owner
    /\ voting.call.reverted
    /\ voting.st = voting.prev
    /\ voting.st.candidateCount > 0

-----------------------------------------------------------------------------
(* The SimpleERC20 contract: properties *)

\* the sum of the balances of the accounts in S
RECURSIVE BalanceSum(_, _)
BalanceSum(_balances, S) ==
    IF S = {} THEN 0
    ELSE LET a == CHOOSE x \in S : TRUE
         IN  _balances[a] + BalanceSum(_balances, S \ {a})

\* C27: after any sequence of transfer calls by any senders the sum of all
\* balances is totalSupply, totalSupply is the value the constructor set, and
\* no balance is above totalSupply (or below zero).
C27_SupplyConserved ==
    /\ BalanceSum(token.st._balances, Holders) = token.st._totalSupply
    /\ token.st._totalSupply = Supply
    /\ \A a \in Holders :
          token.st._balances[a] >= 0 /\ token.st._balances[a] <= token.st._totalSupply

\* the supply is spread over two accounts, and one of them has just sent
\* tokens to itself
C27_Witness ==
    /\ Cardinality({a \in Holders : token.st._balances[a] > 0}) >= 2
    /\ token.call.fn = "transfer" /\ ~token.call.reverted
    /\ token.call.to = token.call.sender
    /\ token.call.amount > 0

\* C28: a transfer to the zero address, or of more than the sender's
\* balance, reverts and leaves every balance as it was, and no other
\* transfer reverts; a successful transfer to another account lowers the
\* sender's balance and raises the recipient's by the amount and changes no
\* other balance; a transfer to oneself leaves the sender's balance as it
\* was.
C28_Transfer ==
    token.call.fn = "transfer" =>
        LET before == token.prev._balances
            after == token.st._balances
            sender == token.call.sender
            to == token.call.to
            amount == token.call.amount
        IN  /\ token.call.reverted <=> (to = ZeroAddress \/ amount > before[sender])
            /\ token.call.reverted => after = before
            /\ ~token.call.reverted /\ to # sender =>
                  /\ after[sender] = before[sender] - amount
                  /\ after[to] = before[to] + amount
                  /\ \A a \in Holders \ {sender, to} : after[a] = before[a]
            /\ ~token.call.reverted /\ to = sender => after = before

\* a transfer of more than the sender holds, by a sender that holds
\* something, reverted
C28_Witness ==
    /\ token.call.fn = "transfer" /\ token.call.reverted
    /\ token.call.to # ZeroAddress
    /\ token.prev._balances[token.call.sender] > 0
    /\ token.call.amount > token.prev._balances[token.call.sender]
    /\ token.st = token.prev
====
